---- MODULE Spec2Model ----
(***************************************************************************)
(* Model of the caching service of redis-valkey-first/src/cache_service.py *)
(* as a state machine: the key-value store, the in-process origin (_USERS) *)
(* with its dict objects, the circuit breaker, and the coroutines that run *)
(* the cache strategies.  One action is one resumption of a coroutine: the *)
(* awaited call takes effect (store command applied, sleep over) and the   *)
(* code runs on to the next await.                                         *)
(***************************************************************************)
EXTENDS Integers, Sequences, FiniteSets, TLC

(* ------------------------------ bounds -------------------------------- *)
NProcs == 3
NSlots == 4
NWorkers == 2
NWriters == 2
MaxTime == 3
MaxCalls == 6

\* the requests: Procs of them in a run of one request after the other, the
\* first NProcs of them where requests run concurrently
Procs == 1..NSlots
Reqs == 1..NProcs

\* the write_behind_worker tasks: the service starts worker 1; the second one
\* stands for a further consumer of the same queue writing to the same origin
Workers == 1..NWorkers

(* ------------------- configuration (scaled to the clock) --------------- *)
CACHE_VER == "v1"
NEG_TTL == 2
REBUILD_LOCK_TTL == 2
SWR_LOCK_TTL == 2
REBUILDING_TTL == 1
UPD_USER_TTL == 6
UPD_WIDGET_TTL == 2
UPD_DEP_TTL == 8
RECOMPUTE_LOCK_TTL == 2
RATE_MAX_TOKENS == 2
RATE_WINDOW_SEC == 2
JITTER_PCT == 15
FAILURE_THRESHOLD == 2
RECOVERY_TIMEOUT == 1

(* ------------------------------- values -------------------------------- *)
Uids == {"1", "2", "3"}
Idents == {"anon", "u1"}
NoStr == "<none>"

\* Python values a strategy returns
NoneV == [t |-> "none"]
ObjV(d) == [t |-> "obj", v |-> d]

\* What the store holds under a string key: absent, a plain string, or the
\* text json.dumps made of an object.
Nil == [t |-> "nil"]
StrV(s) == [t |-> "str", s |-> s]
NilMarker == StrV("__nil__")
One == StrV("1")
json_dumps(d) == [t |-> "json", o |-> d]

\* json.loads: "__nil__" is no JSON text and raises; "1" is the number 1.
json_ok(raw) == raw.t = "json" \/ raw = One
json_loads(raw) == IF raw.t = "json" THEN raw.o ELSE [int |-> 1]

kv2(a, b) == CACHE_VER \o ":" \o a \o ":" \o b
kv3(a, b, c) == CACHE_VER \o ":" \o a \o ":" \o b \o ":" \o c

UserKey(u) == kv2("user", u)
WidgetKey(u) == kv3("widget", "wtf", u)
DepKey(u) == kv3("dep", "user", u)
LockKey(k) == "lock:" \o k
RebuildingKey(k) == "rebuilding:" \o k
SwrLockKey(k) == "swrlock:" \o k
RecomputeKey == kv2("locks", "recompute")
RateKey(i) == kv2("ratelimit", i)

UserKeys == {UserKey(u) : u \in Uids}
StrKeys == UserKeys \cup {WidgetKey(u) : u \in Uids}
             \cup {LockKey(k) : k \in UserKeys}
             \cup {RebuildingKey(k) : k \in UserKeys}
             \cup {SwrLockKey(k) : k \in UserKeys}
             \cup {RecomputeKey}

\* _with_jitter: int(ttl + uniform(-delta, +delta)), delta = ttl * JITTER_RANGE
WithJitter(ttl) ==
  IF ttl <= 0 THEN {ttl}
  ELSE ((ttl * (100 - JITTER_PCT)) \div 100) .. ((ttl * (100 + JITTER_PCT)) \div 100)

(* ------------------------------- state --------------------------------- *)
VARIABLES
  now,      \* time.time(), in clock units
  store,    \* string keys of the key-value store: [v: value, exp: expiry time]
  dep,      \* DependencySet of each id (a store set key): [m: members, exp]
  rate,     \* rate-limit counter of each identity: [n: count, exp]
  queue,    \* the write-behind list QUEUE_KEY
  USERS,    \* _USERS: id -> the dict object stored for it (0: no entry)
  heap,     \* the dict objects _USERS and the coroutines refer to
  pc,       \* where each request coroutine stands
  loc,      \* its local variables
  bg,       \* the SWR refresh task a request created (asyncio.create_task)
  cb,       \* circuit_breaker
  cbpc,     \* where each caller of safe_redis_operation stands
  wpc,      \* each write_behind_worker: position, the popped message, its stop_event
  hist      \* history kept for the properties (no effect on the program)

vars == <<now, store, dep, rate, queue, USERS, heap, pc, loc, bg, cb, cbpc, wpc, hist>>

ObjIds == 1..(Cardinality(Uids) + NSlots + 1)
FreeObj == [id |-> NoStr, name |-> NoStr, title |-> NoStr]
Absent == [v |-> Nil, exp |-> 0]

Get(k) == store[k].v

\* SETEX key ttl value, applied at the current time
SetEx(st, k, ttl, v) == [st EXCEPT ![k] = [v |-> v, exp |-> now + ttl]]

\* SETEX refuses a ttl that is not positive ("invalid expire time")
SetExOk(ttl) == ttl > 0

\* DEL key [key ...]
Del(st, ks) == [k \in DOMAIN st |-> IF k \in ks THEN Absent ELSE st[k]]

\* SET key value EX ttl NX: TRUE when the key was absent and is now set
SetNxOk(k) == Get(k) = Nil
SetNx(st, k, ttl, v) == IF st[k].v = Nil THEN SetEx(st, k, ttl, v) ELSE st

\* Keys whose expiry time has come are gone once the clock reads t
Purge(st, t) ==
  [k \in DOMAIN st |-> IF st[k].v # Nil /\ st[k].exp <= t THEN Absent ELSE st[k]]

\* The objects still referred to; the others are garbage
Refs(users, l) ==
  {users[u] : u \in Uids} \cup {l[p].ref : p \in Procs}
  \cup UNION {{l[p].bk.fetched[u] : u \in DOMAIN l[p].bk.fetched} : p \in Procs}
Collect(h, users, l) == [o \in ObjIds |-> IF o \in Refs(users, l) THEN h[o] ELSE FreeObj]
NewObj(h) == CHOOSE o \in ObjIds : h[o] = FreeObj /\ \A q \in ObjIds : h[q] = FreeObj => o <= q

\* the origin's record of id u (NoneV when it has none)
OriginRec(u) == IF USERS[u] = 0 THEN NoneV ELSE ObjV(heap[USERS[u]])

\* history: one more modification of each key of ks
Touch(h, ks) ==
  [h EXCEPT !.ver = [k \in DOMAIN h.ver |-> IF k \in ks THEN h.ver[k] + 1 ELSE h.ver[k]]]
Expired(h, ks) == [Touch(h, ks) EXCEPT !.expired = @ \cup ks]

\* the locals of bulk_users: uids, hits, misses, the index of the miss being
\* loaded, fetched (id -> dict object, 0 for None) and the values of the
\* pipeline; history: what the multi-get answered and what the origin held
\* for each miss when it was loaded
EmptyMap == [u \in {} |-> 0]
NoBulk ==
  [ids |-> <<>>, hits |-> EmptyMap, misses |-> <<>>, i |-> 0, fetched |-> EmptyMap,
   sers |-> EmptyMap, cache0 |-> EmptyMap, orig |-> EmptyMap]

IdleLoc ==
  [op |-> "none", bk |-> NoBulk, mode |-> NoStr, uid |-> NoStr, key |-> NoStr, ttl |-> 0, grace |-> 0,
   raw |-> Nil, ref |-> 0, ser |-> Nil, ser2 |-> Nil, members |-> {},
   t0 |-> 0, err |-> FALSE, st |-> "none", ret |-> NoneV,
   \* history of the request, for the properties
   loads |-> 0, started |-> 0, miss |-> FALSE, stale |-> FALSE, after |-> {},
   gver |-> 0, sver |-> 0, tget |-> 0, tset |-> 0, count |-> 0, clean |-> TRUE,
   wrote |-> Nil, refreshed |-> 0, raised |-> FALSE, rdone |-> {}]

DoneProcs == {q \in Procs : pc[q] = "done"}

\* a request ends: st is "ok" (a value), "none" (None: 404), "error" (an
\* exception: 500), "limited" (429); the locals are dropped
Finish(l, st, v) ==
  [l EXCEPT !.st = st, !.ret = v, !.ref = 0, !.raw = Nil, !.ser = Nil, !.ser2 = Nil,
            !.ttl = 0, !.grace = 0, !.err = FALSE, !.t0 = 0]

\* requests are interchangeable: they are numbered in the order they arrive
Arrives(p) == pc[p] = "idle" /\ \A q \in Procs : q < p => pc[q] # "idle"

\* a request on id u that is under way: it makes any update of u overlap
Busy(u) ==
  \/ \E q \in Procs : pc[q] \notin {"idle", "done"} /\ loc[q].uid = u
  \/ \E q \in Procs : bg[q].pc # "none" /\ bg[q].uid = u
  \/ \E i \in 1..Len(queue) : queue[i].o.payload.id = u
  \/ \E w \in Workers : wpc[w].pc = "apply" /\ wpc[w].msg.o.payload.id = u
\* history: the requests on id u that have arrived so far
Arrived(u) == Cardinality({q \in Procs : pc[q] # "idle" /\ loc[q].uid = u})

Ada == [id |-> "1", name |-> "Ada", title |-> "Engineer"]
Grace == [id |-> "2", name |-> "Grace", title |-> "Scientist"]

\* the history starts empty; rec tells whether the run keeps the history of
\* the updates (what each wrote to the cache, at which version of the key) and
\* of the write-behind queue (enq, applied, poppers)
Hist0 ==
  [ver |-> [k \in StrKeys |-> 0], expired |-> {},
   calls |-> 0, consec |-> 0, tripped |-> FALSE, tfail |-> 0,
   probe |-> 0, late |-> {}, rec |-> FALSE, enq |-> <<>>, applied |-> <<>>, poppers |-> {},
   stopq |-> <<>>, stopn |-> 0, popsafter |-> 0]

InitState ==
  /\ now = 0
  /\ store = [k \in StrKeys |-> Absent]
  /\ dep = [u \in Uids |-> [m |-> {}, exp |-> 0]]
  /\ rate = [i \in Idents |-> [n |-> 0, exp |-> 0]]
  /\ queue = <<>>
  /\ USERS = [u \in Uids |-> IF u = "1" THEN 1 ELSE IF u = "2" THEN 2 ELSE 0]
  /\ heap = [o \in ObjIds |-> IF o = 1 THEN Ada ELSE IF o = 2 THEN Grace ELSE FreeObj]
  /\ pc = [p \in Procs |-> "idle"]
  /\ loc = [p \in Procs |-> IdleLoc]
  /\ bg = [p \in Procs |-> [pc |-> "none", key |-> NoStr, uid |-> NoStr, ttl |-> 0, grace |-> 0, ser |-> Nil]]
  /\ cb = [failure_count |-> 0, last_failure_time |-> 0, is_open |-> FALSE]
  /\ cbpc = [p \in Procs |-> "idle"]
  /\ wpc = [w \in Workers |-> [pc |-> "pop", msg |-> Nil, stop |-> FALSE]]

Init == InitState /\ hist = Hist0
InitRec == InitState /\ hist = [Hist0 EXCEPT !.rec = TRUE]

(* ------------------------------- clock --------------------------------- *)
\* Time passes; keys whose TTL ran out disappear from the store.
Tick ==
  /\ now < MaxTime
  /\ now' = now + 1
  /\ store' = Purge(store, now + 1)
  /\ dep' = [u \in Uids |-> IF dep[u].m # {} /\ dep[u].exp <= now + 1
                            THEN [m |-> {}, exp |-> 0] ELSE dep[u]]
  /\ rate' = [i \in Idents |-> IF rate[i].n # 0 /\ rate[i].exp <= now + 1
                               THEN [n |-> 0, exp |-> 0] ELSE rate[i]]
  /\ hist' = Expired(hist, {k \in StrKeys : store[k].v # Nil /\ store[k].exp <= now + 1})
  /\ UNCHANGED <<queue, USERS, heap, pc, loc, bg, cb, cbpc, wpc>>

(* ----------------------------- cache-aside ----------------------------- *)
\* cache_aside_json called; r_r.get(key) answers.
CaGet(p, u, ttl) ==
  /\ Arrives(p)
  /\ LET k == UserKey(u)
         raw == Get(k)
         l0 == [IdleLoc EXCEPT !.op = "cache-aside", !.uid = u, !.key = k, !.ttl = ttl,
                               !.raw = raw, !.after = DoneProcs, !.gver = hist.ver[k],
                               !.tget = now]
     IN IF raw # Nil
        THEN /\ pc' = [pc EXCEPT ![p] = "done"]
             /\ loc' = [loc EXCEPT ![p] =
                    IF json_ok(raw) THEN Finish(l0, "ok", ObjV(json_loads(raw)))
                    ELSE Finish(l0, "error", NoneV)]
        ELSE /\ pc' = [pc EXCEPT ![p] = "ca_load"]
             /\ loc' = [loc EXCEPT ![p] = [l0 EXCEPT !.miss = TRUE, !.loads = 1]]
  /\ UNCHANGED <<now, store, dep, rate, queue, USERS, heap, bg, cb, cbpc, wpc, hist>>

\* variant: a None of the loader is cached as the marker for NEG_TTL
CaLoadNegative(p) ==
  /\ pc[p] = "ca_load"
  /\ LET o == USERS[loc[p].uid]
     IN IF o = 0
        THEN /\ pc' = [pc EXCEPT ![p] = "done"]
             /\ loc' = [loc EXCEPT ![p] = Finish(@, "none", NoneV)]
             /\ store' = SetEx(store, loc[p].key, NEG_TTL, NilMarker)
             /\ hist' = Touch(hist, {loc[p].key})
        ELSE /\ pc' = [pc EXCEPT ![p] = "ca_set"]
             /\ loc' = [loc EXCEPT ![p].ref = o, ![p].ser = json_dumps(heap[o])]
             /\ UNCHANGED <<store, hist>>
  /\ UNCHANGED <<now, dep, rate, queue, USERS, heap, bg, cb, cbpc, wpc>>

\* the loader (db_get_user_async) answers; None ends the read
CaLoad(p) ==
  /\ pc[p] = "ca_load"
  /\ LET o == USERS[loc[p].uid]
     IN IF o = 0
        THEN /\ pc' = [pc EXCEPT ![p] = "done"]
             /\ loc' = [loc EXCEPT ![p] = Finish(@, "none", NoneV)]
        ELSE /\ pc' = [pc EXCEPT ![p] = "ca_set"]
             /\ loc' = [loc EXCEPT ![p].ref = o, ![p].ser = json_dumps(heap[o])]
  /\ UNCHANGED <<now, store, dep, rate, queue, USERS, heap, bg, cb, cbpc, wpc, hist>>

\* the loader raises: get_user answers 500 and nothing is written
CaLoadRaises(p) ==
  /\ pc[p] = "ca_load"
  /\ pc' = [pc EXCEPT ![p] = "done"]
  /\ loc' = [loc EXCEPT ![p] = Finish([@ EXCEPT !.raised = TRUE], "error", NoneV)]
  /\ UNCHANGED <<now, store, dep, rate, queue, USERS, heap, bg, cb, cbpc, wpc, hist>>

\* r_w.setex(key, _with_jitter(ttl), json.dumps(data)) answers; data is returned
CaSet(p) ==
  /\ pc[p] = "ca_set"
  /\ \E j \in WithJitter(loc[p].ttl) :
       IF SetExOk(j)
       THEN /\ store' = SetEx(store, loc[p].key, j, loc[p].ser)
            /\ hist' = Touch(hist, {loc[p].key})
            /\ loc' = [loc EXCEPT ![p] =
                   Finish([@ EXCEPT !.sver = hist.ver[loc[p].key] + 1, !.tset = now],
                          "ok", ObjV(heap[loc[p].ref]))]
       ELSE /\ loc' = [loc EXCEPT ![p] = Finish(@, "error", NoneV)]
            /\ UNCHANGED <<store, hist>>
  /\ pc' = [pc EXCEPT ![p] = "done"]
  /\ heap' = Collect(heap, USERS, loc')
  /\ UNCHANGED <<now, dep, rate, queue, USERS, bg, cb, cbpc, wpc>>

(* ----------------------------- singleflight ---------------------------- *)
\* get_with_singleflight_json called; r_r.get(key) answers
SfGet(p, u, ttl) ==
  /\ Arrives(p)
  /\ LET k == UserKey(u)
         raw == Get(k)
         l0 == [IdleLoc EXCEPT !.op = "singleflight", !.uid = u, !.key = k, !.ttl = ttl,
                               !.raw = raw, !.after = DoneProcs, !.gver = hist.ver[k],
                               !.tget = now]
     IN IF raw # Nil
        THEN /\ pc' = [pc EXCEPT ![p] = "done"]
             /\ loc' = [loc EXCEPT ![p] =
                    IF json_ok(raw) THEN Finish(l0, "ok", ObjV(json_loads(raw)))
                    ELSE Finish(l0, "error", NoneV)]
        ELSE /\ pc' = [pc EXCEPT ![p] = "sf_lock"]
             /\ loc' = [loc EXCEPT ![p] = [l0 EXCEPT !.miss = TRUE]]
  /\ UNCHANGED <<now, store, dep, rate, queue, USERS, heap, bg, cb, cbpc, wpc, hist>>

\* r_w.set(lock_key, "1", ex=REBUILD_LOCK_TTL, nx=True) answers: the winner
\* calls the loader, a loser goes to sleep
SfLock(p) ==
  /\ pc[p] = "sf_lock"
  /\ LET lk == LockKey(loc[p].key)
     IN IF SetNxOk(lk)
        THEN /\ store' = SetNx(store, lk, REBUILD_LOCK_TTL, One)
             /\ hist' = Touch(hist, {lk})
             /\ pc' = [pc EXCEPT ![p] = "sf_load"]
             /\ loc' = [loc EXCEPT ![p].loads = 1, ![p].t0 = now]
        ELSE /\ pc' = [pc EXCEPT ![p] = "sf_sleep"]
             /\ UNCHANGED <<store, hist, loc>>
  /\ UNCHANGED <<now, dep, rate, queue, USERS, heap, bg, cb, cbpc, wpc>>

\* the winner's loader answers
SfLoad(p) ==
  /\ pc[p] = "sf_load"
  /\ LET o == USERS[loc[p].uid]
     IN IF o = 0
        THEN /\ pc' = [pc EXCEPT ![p] = "sf_unlock"]
             /\ UNCHANGED loc
        ELSE /\ pc' = [pc EXCEPT ![p] = "sf_pipe"]
             /\ loc' = [loc EXCEPT ![p].ref = o, ![p].ser = json_dumps(heap[o])]
  /\ UNCHANGED <<now, store, dep, rate, queue, USERS, heap, bg, cb, cbpc, wpc, hist>>

\* the winner's loader raises: the finally clause runs before the exception
\* goes on to get_user
SfLoadRaises(p) ==
  /\ pc[p] = "sf_load"
  /\ pc' = [pc EXCEPT ![p] = "sf_unlock"]
  /\ loc' = [loc EXCEPT ![p].err = TRUE, ![p].raised = TRUE]
  /\ UNCHANGED <<now, store, dep, rate, queue, USERS, heap, bg, cb, cbpc, wpc, hist>>

\* the pipeline (setex key, setex rebuilding:key) is executed; a refused
\* expiry raises after the other command was applied
SfPipe(p) ==
  /\ pc[p] = "sf_pipe"
  /\ \E j \in WithJitter(loc[p].ttl) :
       LET k == loc[p].key
           st1 == IF SetExOk(j) THEN SetEx(store, k, j, loc[p].ser) ELSE store
       IN /\ store' = SetEx(st1, RebuildingKey(k), REBUILDING_TTL, One)
          /\ hist' = Touch(hist, (IF SetExOk(j) THEN {k} ELSE {}) \cup {RebuildingKey(k)})
          /\ loc' = [loc EXCEPT ![p].err = ~SetExOk(j),
                                ![p].sver = IF SetExOk(j) THEN hist.ver[k] + 1 ELSE @,
                                ![p].tset = now]
  /\ pc' = [pc EXCEPT ![p] = "sf_unlock"]
  /\ UNCHANGED <<now, dep, rate, queue, USERS, heap, bg, cb, cbpc, wpc>>

\* variant: the lock is released after the try body, not in a finally clause
SfUnlockNoFinally(p) ==
  /\ pc[p] = "sf_unlock"
  /\ LET lk == LockKey(loc[p].key)
     IN /\ store' = IF loc[p].err THEN store ELSE Del(store, {lk})
        /\ hist' = IF Get(lk) # Nil /\ ~loc[p].err THEN Touch(hist, {lk}) ELSE hist
  /\ loc' = [loc EXCEPT ![p] =
         IF @.err THEN Finish(@, "error", NoneV)
         ELSE IF @.ref = 0 THEN Finish(@, "none", NoneV)
         ELSE Finish(@, "ok", ObjV(heap[@.ref]))]
  /\ pc' = [pc EXCEPT ![p] = "done"]
  /\ heap' = Collect(heap, USERS, loc')
  /\ UNCHANGED <<now, dep, rate, queue, USERS, bg, cb, cbpc, wpc>>

\* finally: r_w.delete(lock_key) answers, whoever holds the lock now
SfUnlock(p) ==
  /\ pc[p] = "sf_unlock"
  /\ LET lk == LockKey(loc[p].key)
     IN /\ store' = Del(store, {lk})
        /\ hist' = IF Get(lk) # Nil THEN Touch(hist, {lk}) ELSE hist
  /\ loc' = [loc EXCEPT ![p] =
         IF @.err THEN Finish(@, "error", NoneV)
         ELSE IF @.ref = 0 THEN Finish(@, "none", NoneV)
         ELSE Finish(@, "ok", ObjV(heap[@.ref]))]
  /\ pc' = [pc EXCEPT ![p] = "done"]
  /\ heap' = Collect(heap, USERS, loc')
  /\ UNCHANGED <<now, dep, rate, queue, USERS, bg, cb, cbpc, wpc>>

\* a loser's sleep(wait_ms) is over and its second r_r.get(key) answers
SfReread(p) ==
  /\ pc[p] = "sf_sleep"
  /\ LET raw2 == Get(loc[p].key)
     IN loc' = [loc EXCEPT ![p] =
          IF raw2 = Nil THEN Finish(@, "none", NoneV)
          ELSE IF json_ok(raw2) THEN Finish(@, "ok", ObjV(json_loads(raw2)))
          ELSE Finish(@, "error", NoneV)]
  /\ pc' = [pc EXCEPT ![p] = "done"]
  /\ UNCHANGED <<now, store, dep, rate, queue, USERS, heap, bg, cb, cbpc, wpc, hist>>

(* -------------------------- negative caching --------------------------- *)
\* variant: the stored value is compared with a sentinel that is never written
IsOtherMarker(raw) == raw = StrV("nil")
\* raw == "__nil__"
IsNilMarker(raw) == raw = NilMarker

\* get_with_negative_cache_json called; r_r.get(key) answers
NegGet(p, u, ttl) ==
  /\ Arrives(p)
  /\ LET k == UserKey(u)
         raw == Get(k)
         l0 == [IdleLoc EXCEPT !.op = "negative", !.uid = u, !.key = k, !.ttl = ttl,
                               !.raw = raw, !.after = DoneProcs, !.gver = hist.ver[k],
                               !.tget = now]
     IN IF raw # Nil
        THEN /\ pc' = [pc EXCEPT ![p] = "done"]
             /\ loc' = [loc EXCEPT ![p] =
                    IF IsNilMarker(raw) THEN Finish(l0, "none", NoneV)
                    ELSE IF json_ok(raw) THEN Finish(l0, "ok", ObjV(json_loads(raw)))
                    ELSE Finish(l0, "error", NoneV)]
        ELSE /\ pc' = [pc EXCEPT ![p] = "neg_load"]
             /\ loc' = [loc EXCEPT ![p] = [l0 EXCEPT !.miss = TRUE, !.loads = 1]]
  /\ UNCHANGED <<now, store, dep, rate, queue, USERS, heap, bg, cb, cbpc, wpc, hist>>

\* the loader answers
NegLoad(p) ==
  /\ pc[p] = "neg_load"
  /\ LET o == USERS[loc[p].uid]
     IN loc' = [loc EXCEPT ![p].ref = o,
                           ![p].ser = IF o = 0 THEN NilMarker ELSE json_dumps(heap[o])]
  /\ pc' = [pc EXCEPT ![p] = "neg_set"]
  /\ UNCHANGED <<now, store, dep, rate, queue, USERS, heap, bg, cb, cbpc, wpc, hist>>

\* variant: an exception of the loader is taken for "no such record"
NegLoadAbsent(p) ==
  /\ pc[p] = "neg_load"
  /\ pc' = [pc EXCEPT ![p] = "neg_set"]
  /\ loc' = [loc EXCEPT ![p].ref = 0, ![p].ser = NilMarker, ![p].raised = TRUE]
  /\ UNCHANGED <<now, store, dep, rate, queue, USERS, heap, bg, cb, cbpc, wpc, hist>>

\* the loader raises: get_user answers 500 and nothing is written
NegLoadRaises(p) ==
  /\ pc[p] = "neg_load"
  /\ pc' = [pc EXCEPT ![p] = "done"]
  /\ loc' = [loc EXCEPT ![p] = Finish([@ EXCEPT !.raised = TRUE], "error", NoneV)]
  /\ UNCHANGED <<now, store, dep, rate, queue, USERS, heap, bg, cb, cbpc, wpc, hist>>

\* setex(key, NEG_TTL, "__nil__") or setex(key, _with_jitter(ttl), json) answers
NegSet(p) ==
  /\ pc[p] = "neg_set"
  /\ \E j \in (IF loc[p].ref = 0 THEN {NEG_TTL} ELSE WithJitter(loc[p].ttl)) :
       IF SetExOk(j)
       THEN /\ store' = SetEx(store, loc[p].key, j, loc[p].ser)
            /\ hist' = Touch(hist, {loc[p].key})
            /\ loc' = [loc EXCEPT ![p] =
                   LET l1 == [@ EXCEPT !.sver = hist.ver[loc[p].key] + 1, !.tset = now]
                   IN IF @.ref = 0 THEN Finish(l1, "none", NoneV)
                      ELSE Finish(l1, "ok", ObjV(heap[@.ref]))]
       ELSE /\ loc' = [loc EXCEPT ![p] = Finish(@, "error", NoneV)]
            /\ UNCHANGED <<store, hist>>
  /\ pc' = [pc EXCEPT ![p] = "done"]
  /\ heap' = Collect(heap, USERS, loc')
  /\ UNCHANGED <<now, dep, rate, queue, USERS, bg, cb, cbpc, wpc>>

(* ------------------------ stale-while-revalidate ----------------------- *)
\* the SWR envelope {"value": data, "stale_at": t}
Envelope(d, t) == [value |-> d, stale_at |-> t]
IsEnvelope(obj) == "value" \in DOMAIN obj /\ "stale_at" \in DOMAIN obj

\* variant: an envelope still counts as fresh at its stale_at
FreshUpTo(obj, t) == t <= obj.stale_at
\* now < obj["stale_at"]
Fresh(obj, t) == t < obj.stale_at

NoBg == [pc |-> "none", key |-> NoStr, uid |-> NoStr, ttl |-> 0, grace |-> 0, ser |-> Nil]

\* history: the requests whose refresh task for key k has ended
RefreshEnded(k) ==
  {q \in Procs : loc[q].op = "swr" /\ loc[q].key = k /\ loc[q].started = 1 /\ bg[q].pc = "none"}

\* swr_get_json called; r_r.get(key) answers and now = time.time() is read.
\* A fresh envelope is returned, a stale one goes for the refresh lock,
\* anything else (no entry, an entry in another format) is a cold read.
SwrGet(p, u, ttl, grace) ==
  /\ Arrives(p)
  /\ LET k == UserKey(u)
         raw == Get(k)
         l0 == [IdleLoc EXCEPT !.op = "swr", !.uid = u, !.key = k, !.ttl = ttl,
                               !.grace = grace, !.raw = raw, !.after = DoneProcs,
                               !.gver = hist.ver[k], !.tget = now, !.t0 = now,
                               !.clean = ~Busy(u), !.count = Arrived(u) + 1,
                               !.rdone = IF hist.rec THEN RefreshEnded(k) ELSE {}]
     IN IF raw # Nil /\ ~json_ok(raw)
        THEN /\ pc' = [pc EXCEPT ![p] = "done"]
             /\ loc' = [loc EXCEPT ![p] = Finish(l0, "error", NoneV)]
        ELSE IF raw # Nil /\ IsEnvelope(json_loads(raw))
        THEN IF Fresh(json_loads(raw), now)
             THEN /\ pc' = [pc EXCEPT ![p] = "done"]
                  /\ loc' = [loc EXCEPT ![p] = Finish(l0, "ok", ObjV(json_loads(raw).value))]
             ELSE /\ pc' = [pc EXCEPT ![p] = "swr_lock"]
                  /\ loc' = [loc EXCEPT ![p] = [l0 EXCEPT !.stale = TRUE]]
        ELSE /\ pc' = [pc EXCEPT ![p] = "swr_load"]
             /\ loc' = [loc EXCEPT ![p] = [l0 EXCEPT !.miss = TRUE, !.loads = 1]]
  /\ UNCHANGED <<now, store, dep, rate, queue, USERS, heap, bg, cb, cbpc, wpc, hist>>

\* r_w.set(swrlock, "1", ex=SWR_LOCK_TTL, nx=True) answers: with the lock the
\* reader creates the _refresh task; either way it returns the stale value
SwrLock(p) ==
  /\ pc[p] = "swr_lock"
  /\ LET lk == SwrLockKey(loc[p].key)
     IN IF SetNxOk(lk)
        THEN /\ store' = SetNx(store, lk, SWR_LOCK_TTL, One)
             /\ hist' = Touch(hist, {lk})
             /\ bg' = [bg EXCEPT ![p] = [pc |-> "load", key |-> loc[p].key, uid |-> loc[p].uid,
                                         ttl |-> loc[p].ttl, grace |-> loc[p].grace, ser |-> Nil]]
             /\ loc' = [loc EXCEPT ![p] =
                    Finish([@ EXCEPT !.started = 1], "ok", ObjV(json_loads(@.raw).value))]
        ELSE /\ loc' = [loc EXCEPT ![p] = Finish(@, "ok", ObjV(json_loads(@.raw).value))]
             /\ UNCHANGED <<store, hist, bg>>
  /\ pc' = [pc EXCEPT ![p] = "done"]
  /\ UNCHANGED <<now, dep, rate, queue, USERS, heap, cb, cbpc, wpc>>

\* _refresh: the loader answers; the new envelope is stamped time.time() + ttl
BgLoad(p) ==
  /\ bg[p].pc = "load"
  /\ LET o == USERS[bg[p].uid]
     IN bg' = [bg EXCEPT ![p] =
          IF o = 0 THEN [@ EXCEPT !.pc = "unlock"]
          ELSE [@ EXCEPT !.pc = "set",
                         !.ser = json_dumps(Envelope(heap[o], now + bg[p].ttl))]]
  /\ loc' = [loc EXCEPT ![p].refreshed = @ + 1]
  /\ UNCHANGED <<now, store, dep, rate, queue, USERS, heap, pc, cb, cbpc, wpc, hist>>

\* _refresh: the loader raises; the finally clause runs and the task ends
\* with the exception
BgLoadRaises(p) ==
  /\ bg[p].pc = "load"
  /\ bg' = [bg EXCEPT ![p].pc = "unlock"]
  /\ loc' = [loc EXCEPT ![p].refreshed = @ + 1]
  /\ UNCHANGED <<now, store, dep, rate, queue, USERS, heap, pc, cb, cbpc, wpc, hist>>

\* variant: the refresh writes the envelope with the TTL of a plain entry
BgSetShort(p) ==
  /\ bg[p].pc = "set"
  /\ store' = SetEx(store, bg[p].key, bg[p].ttl, bg[p].ser)
  /\ hist' = Touch(hist, {bg[p].key})
  /\ bg' = [bg EXCEPT ![p].pc = "unlock", ![p].ser = Nil]
  /\ loc' = IF hist.rec
            THEN [loc EXCEPT ![p].wrote = bg[p].ser, ![p].sver = hist.ver[bg[p].key] + 1,
                             ![p].tset = now]
            ELSE loc
  /\ UNCHANGED <<now, dep, rate, queue, USERS, heap, pc, cb, cbpc, wpc>>

\* _refresh: r_w.setex(key, ttl + stale_grace, envelope) answers
BgSet(p) ==
  /\ bg[p].pc = "set"
  /\ store' = SetEx(store, bg[p].key, bg[p].ttl + bg[p].grace, bg[p].ser)
  /\ hist' = Touch(hist, {bg[p].key})
  /\ bg' = [bg EXCEPT ![p].pc = "unlock", ![p].ser = Nil]
  /\ loc' = IF hist.rec
            THEN [loc EXCEPT ![p].wrote = bg[p].ser, ![p].sver = hist.ver[bg[p].key] + 1,
                             ![p].tset = now]
            ELSE loc
  /\ UNCHANGED <<now, dep, rate, queue, USERS, heap, pc, cb, cbpc, wpc>>

\* _refresh, finally: r_w.delete(swrlock) answers and the task ends
BgUnlock(p) ==
  /\ bg[p].pc = "unlock"
  /\ LET lk == SwrLockKey(bg[p].key)
     IN /\ store' = Del(store, {lk})
        /\ hist' = IF Get(lk) # Nil THEN Touch(hist, {lk}) ELSE hist
  /\ bg' = [bg EXCEPT ![p] = NoBg]
  /\ UNCHANGED <<now, dep, rate, queue, USERS, heap, pc, loc, cb, cbpc, wpc>>

\* cold read: the loader answers; the envelope is stamped now + ttl with the
\* time read before the loader ran
SwrLoad(p) ==
  /\ pc[p] = "swr_load"
  /\ LET o == USERS[loc[p].uid]
     IN IF o = 0
        THEN /\ pc' = [pc EXCEPT ![p] = "done"]
             /\ loc' = [loc EXCEPT ![p] = Finish(@, "none", NoneV)]
        ELSE /\ pc' = [pc EXCEPT ![p] = "swr_set"]
             /\ loc' = [loc EXCEPT ![p].ref = o,
                          ![p].ser = json_dumps(Envelope(heap[o], loc[p].t0 + loc[p].ttl))]
  /\ UNCHANGED <<now, store, dep, rate, queue, USERS, heap, bg, cb, cbpc, wpc, hist>>

\* cold read: the loader raises: get_user answers 500 and nothing is written
SwrLoadRaises(p) ==
  /\ pc[p] = "swr_load"
  /\ pc' = [pc EXCEPT ![p] = "done"]
  /\ loc' = [loc EXCEPT ![p] = Finish([@ EXCEPT !.raised = TRUE], "error", NoneV)]
  /\ UNCHANGED <<now, store, dep, rate, queue, USERS, heap, bg, cb, cbpc, wpc, hist>>

\* cold read: r_w.setex(key, ttl + stale_grace, envelope) answers
SwrSet(p) ==
  /\ pc[p] = "swr_set"
  /\ store' = SetEx(store, loc[p].key, loc[p].ttl + loc[p].grace, loc[p].ser)
  /\ hist' = Touch(hist, {loc[p].key})
  /\ loc' = [loc EXCEPT ![p] =
         Finish([@ EXCEPT !.sver = hist.ver[loc[p].key] + 1, !.tset = now],
                "ok", ObjV(heap[@.ref]))]
  /\ pc' = [pc EXCEPT ![p] = "done"]
  /\ heap' = Collect(heap, USERS, loc')
  /\ UNCHANGED <<now, dep, rate, queue, USERS, bg, cb, cbpc, wpc>>

(* ------------------------------- get_user ------------------------------ *)
ValidStrategies == {"cache-aside", "singleflight", "swr", "negative"}
\* variant: no validation of the strategy name
AnyStrategy(s) == TRUE
\* strategy in valid_strategies
ValidStrategy(s) == s \in ValidStrategies

\* get_user called: a strategy name that is not valid raises 400 before
\* anything else; a valid one runs its strategy up to the answer of r_r.get.
\* (A name that passed validation and matches no branch would leave data
\* unbound: the NameError is answered 500.)
GetUser(p, u, strategy, ttl, grace) ==
  IF ~ValidStrategy(strategy)
  THEN /\ Arrives(p)
       /\ pc' = [pc EXCEPT ![p] = "done"]
       /\ loc' = [loc EXCEPT ![p] =
              Finish([IdleLoc EXCEPT !.op = "get_user", !.mode = strategy, !.uid = u,
                                     !.after = DoneProcs, !.tget = now],
                     "invalid", NoneV)]
       /\ UNCHANGED <<now, store, dep, rate, queue, USERS, heap, bg, cb, cbpc, wpc, hist>>
  ELSE CASE strategy = "cache-aside" -> CaGet(p, u, ttl)
         [] strategy = "singleflight" -> SfGet(p, u, ttl)
         [] strategy = "swr" -> SwrGet(p, u, ttl, grace)
         [] strategy = "negative" -> NegGet(p, u, ttl)
         [] OTHER ->
              /\ Arrives(p)
              /\ pc' = [pc EXCEPT ![p] = "done"]
              /\ loc' = [loc EXCEPT ![p] =
                     Finish([IdleLoc EXCEPT !.op = "get_user", !.mode = strategy, !.uid = u,
                                            !.after = DoneProcs, !.tget = now],
                            "error", NoneV)]
              /\ UNCHANGED <<now, store, dep, rate, queue, USERS, heap, bg, cb, cbpc, wpc, hist>>

(* ------------------------------ update_user ---------------------------- *)
\* the ids of _USERS in the order of the dict (ids are only ever added, and
\* "3" is the one id that can be added)
UserIds(users) == SelectSeq(<<"1", "2", "3">>, LAMBDA u : users[u] # 0)
Take3(q) == SubSeq(q, 1, IF Len(q) < 3 THEN Len(q) ELSE 3)
Widget(users, uid) == [suggestions |-> Take3(SelectSeq(UserIds(users), LAMBDA u : u # uid))]

\* the write-behind message (its "ts" is never read)
Message(d) == [topic |-> "user_update", payload |-> d]

\* the patch applied to the record: a field the patch leaves out (None) stays
Patched(d, name, title) ==
  [d EXCEPT !.name = IF name # NoStr THEN name ELSE @,
            !.title = IF title # NoStr THEN title ELSE @]
NewUser(uid, name, title) ==
  [id |-> uid, name |-> IF name # NoStr THEN name ELSE "User " \o uid,
   title |-> IF title # NoStr THEN title ELSE "Member"]

\* update_user called; db_get_user_async answers.  An existing record is the
\* dict of _USERS itself and is patched in place; a missing one is a new dict.
\* write-behind then serialises the message, write-through calls db_update_user.
UpdRead(p, u, name, title, mode) ==
  /\ Arrives(p)
  /\ LET o == IF USERS[u] # 0 THEN USERS[u] ELSE NewObj(heap)
         d == IF USERS[u] # 0 THEN Patched(heap[o], name, title) ELSE NewUser(u, name, title)
         h1 == [heap EXCEPT ![o] = d]
         l0 == [IdleLoc EXCEPT !.op = "update", !.mode = mode, !.uid = u, !.key = UserKey(u), !.ref = o,
                               !.after = DoneProcs, !.clean = ~Busy(u),
                               !.count = Arrived(u) + 1,
                               !.ser = IF mode = "write-behind"
                                       THEN json_dumps(Message(d)) ELSE Nil]
     IN /\ heap' = h1
        /\ loc' = [loc EXCEPT ![p] = l0]
        /\ pc' = [pc EXCEPT ![p] = IF mode = "write-behind" THEN "upd_enq" ELSE "upd_db"]
  /\ UNCHANGED <<now, store, dep, rate, queue, USERS, bg, cb, cbpc, wpc, hist>>

\* write-through: db_update_user stores the dict in _USERS; the pipeline is
\* built from the dict as it is now
UpdDb(p) ==
  /\ pc[p] = "upd_db"
  /\ USERS' = [USERS EXCEPT ![loc[p].uid] = loc[p].ref]
  /\ loc' = [loc EXCEPT ![p].ser = json_dumps(heap[loc[p].ref]),
                        ![p].ser2 = json_dumps(Widget(USERS', loc[p].uid))]
  /\ pc' = [pc EXCEPT ![p] = "upd_pipe"]
  /\ heap' = Collect(heap, USERS', loc')
  /\ UNCHANGED <<now, store, dep, rate, queue, bg, cb, cbpc, wpc, hist>>

\* write-behind: r_w.rpush(QUEUE_KEY, message) answers; the pipeline is built
\* from the dict as it is now
UpdEnq(p) ==
  /\ pc[p] = "upd_enq"
  /\ queue' = Append(queue, loc[p].ser)
  /\ hist' = IF hist.rec THEN [hist EXCEPT !.enq = Append(@, loc[p].ser)] ELSE hist
  /\ loc' = [loc EXCEPT ![p].ser = json_dumps(heap[loc[p].ref]),
                        ![p].ser2 = json_dumps(Widget(USERS, loc[p].uid))]
  /\ pc' = [pc EXCEPT ![p] = "upd_pipe"]
  /\ UNCHANGED <<now, store, dep, rate, USERS, heap, bg, cb, cbpc, wpc>>

\* variant: the pipeline refreshes the widget key but not the user key
UpdPipeWidgetOnly(p) ==
  /\ pc[p] = "upd_pipe"
  /\ \E jw \in WithJitter(UPD_WIDGET_TTL) :
       LET u == loc[p].uid
           k == UserKey(u)
           w == WidgetKey(u)
       IN /\ store' = SetEx(store, w, jw, loc[p].ser2)
          /\ dep' = [dep EXCEPT ![u] = [m |-> @.m \cup {k, w}, exp |-> now + UPD_DEP_TTL]]
          /\ hist' = Touch(hist, {w})
  /\ loc' = [loc EXCEPT ![p].ser = Nil, ![p].ser2 = Nil,
                        ![p].wrote = IF hist.rec THEN loc[p].ser ELSE @,
                        ![p].sver = IF hist.rec THEN hist.ver[loc[p].key] + 1 ELSE @]
  /\ pc' = [pc EXCEPT ![p] = "upd_ret"]
  /\ UNCHANGED <<now, rate, queue, USERS, heap, bg, cb, cbpc, wpc>>

\* variant: the two records are written under each other's key
UpdPipeSwapped(p) ==
  /\ pc[p] = "upd_pipe"
  /\ \E j \in WithJitter(UPD_USER_TTL), jw \in WithJitter(UPD_WIDGET_TTL) :
       LET u == loc[p].uid
           k == UserKey(u)
           w == WidgetKey(u)
       IN /\ store' = SetEx(SetEx(store, k, j, loc[p].ser2), w, jw, loc[p].ser)
          /\ dep' = [dep EXCEPT ![u] = [m |-> @.m \cup {k, w}, exp |-> now + UPD_DEP_TTL]]
          /\ hist' = Touch(hist, {k, w})
  /\ loc' = [loc EXCEPT ![p].ser = Nil, ![p].ser2 = Nil,
                        ![p].wrote = IF hist.rec THEN loc[p].ser ELSE @,
                        ![p].sver = IF hist.rec THEN hist.ver[loc[p].key] + 1 ELSE @]
  /\ pc' = [pc EXCEPT ![p] = "upd_ret"]
  /\ UNCHANGED <<now, rate, queue, USERS, heap, bg, cb, cbpc, wpc>>

\* the pipeline is executed: setex user key, setex widget key, sadd dep, expire dep
UpdPipe(p) ==
  /\ pc[p] = "upd_pipe"
  /\ \E j \in WithJitter(UPD_USER_TTL), jw \in WithJitter(UPD_WIDGET_TTL) :
       LET u == loc[p].uid
           k == UserKey(u)
           w == WidgetKey(u)
       IN /\ store' = SetEx(SetEx(store, k, j, loc[p].ser), w, jw, loc[p].ser2)
          /\ dep' = [dep EXCEPT ![u] = [m |-> @.m \cup {k, w}, exp |-> now + UPD_DEP_TTL]]
          /\ hist' = Touch(hist, {k, w})
  /\ loc' = [loc EXCEPT ![p].ser = Nil, ![p].ser2 = Nil,
                        ![p].wrote = IF hist.rec THEN loc[p].ser ELSE @,
                        ![p].sver = IF hist.rec THEN hist.ver[loc[p].key] + 1 ELSE @]
  /\ pc' = [pc EXCEPT ![p] = "upd_ret"]
  /\ UNCHANGED <<now, rate, queue, USERS, heap, bg, cb, cbpc, wpc>>

\* update_user returns {"ok": True, "user": cur, "mode": mode}
UpdRet(p) ==
  /\ pc[p] = "upd_ret"
  /\ loc' = [loc EXCEPT ![p] = Finish(@, "ok", ObjV(heap[@.ref]))]
  /\ pc' = [pc EXCEPT ![p] = "done"]
  /\ heap' = Collect(heap, USERS, loc')
  /\ UNCHANGED <<now, store, dep, rate, queue, USERS, bg, cb, cbpc, wpc, hist>>

(* -------------------------- write-behind worker ------------------------ *)
\* variant: the worker takes the message enqueued last (a pop from the right)
WPopRight(w) ==
  /\ wpc[w].pc = "pop"
  /\ queue # <<>>
  /\ queue' = SubSeq(queue, 1, Len(queue) - 1)
  /\ wpc' = [wpc EXCEPT ![w].pc = "apply", ![w].msg = queue[Len(queue)]]
  /\ hist' = IF hist.rec THEN [hist EXCEPT !.poppers = @ \cup {w}] ELSE hist
  /\ UNCHANGED <<now, store, dep, rate, USERS, heap, pc, loc, bg, cb, cbpc>>

\* r_w.blpop(QUEUE_KEY) hands over the head of the list; db_update_user is called
WPop(w) ==
  /\ wpc[w].pc = "pop"
  /\ queue # <<>>
  /\ queue' = Tail(queue)
  /\ wpc' = [wpc EXCEPT ![w].pc = "apply", ![w].msg = Head(queue)]
  /\ hist' = IF hist.rec
             THEN [hist EXCEPT !.poppers = @ \cup {w},
                               !.popsafter = IF wpc[w].stop THEN @ + 1 ELSE @]
             ELSE hist
  /\ UNCHANGED <<now, store, dep, rate, USERS, heap, pc, loc, bg, cb, cbpc>>

\* variant: the worker takes the message for another topic and skips it
WSkip(w) ==
  /\ wpc[w].pc = "apply"
  /\ wpc' = [wpc EXCEPT ![w].pc = IF wpc[w].stop THEN "stopped" ELSE "pop", ![w].msg = Nil]
  /\ hist' = IF hist.rec THEN [hist EXCEPT !.applied = Append(@, wpc[w].msg)] ELSE hist
  /\ UNCHANGED <<now, store, dep, rate, queue, USERS, heap, pc, loc, bg, cb, cbpc>>

\* variant: while True, the loop never tests the stop event
WApplyForever(w) ==
  /\ wpc[w].pc = "apply"
  /\ LET d == json_loads(wpc[w].msg).payload
         o == NewObj(heap)
     IN /\ USERS' = [USERS EXCEPT ![d.id] = o]
        /\ heap' = Collect([heap EXCEPT ![o] = d], USERS', loc)
  /\ wpc' = [wpc EXCEPT ![w].pc = "pop", ![w].msg = Nil]
  /\ hist' = IF hist.rec THEN [hist EXCEPT !.applied = Append(@, wpc[w].msg)] ELSE hist
  /\ UNCHANGED <<now, store, dep, rate, queue, pc, loc, bg, cb, cbpc>>

\* db_update_user stores the payload, a dict of its own, in _USERS; the loop
\* then tests stop_event and either ends or calls blpop again
WApply(w) ==
  /\ wpc[w].pc = "apply"
  /\ LET d == json_loads(wpc[w].msg).payload
         o == NewObj(heap)
     IN /\ USERS' = [USERS EXCEPT ![d.id] = o]
        /\ heap' = Collect([heap EXCEPT ![o] = d], USERS', loc)
  /\ wpc' = [wpc EXCEPT ![w].pc = IF wpc[w].stop THEN "stopped" ELSE "pop", ![w].msg = Nil]
  /\ hist' = IF hist.rec THEN [hist EXCEPT !.applied = Append(@, wpc[w].msg)] ELSE hist
  /\ UNCHANGED <<now, store, dep, rate, queue, pc, loc, bg, cb, cbpc>>

\* blpop times out on the empty list (None: continue) and the loop test finds
\* the stop event set: the worker ends.  With the event not set the worker
\* calls blpop again, which changes nothing
WTimeout(w) ==
  /\ wpc[w].pc = "pop"
  /\ queue = <<>>
  /\ wpc[w].stop
  /\ wpc' = [wpc EXCEPT ![w].pc = "stopped"]
  /\ UNCHANGED <<now, store, dep, rate, queue, USERS, heap, pc, loc, bg, cb, cbpc, hist>>

\* _shutdown: _worker_stop.set(), the stop event of the worker the service
\* started; history: the queue and the number of applied messages at that point
Shutdown ==
  /\ ~wpc[1].stop
  /\ wpc' = [wpc EXCEPT ![1].stop = TRUE]
  /\ hist' = [hist EXCEPT !.stopq = queue, !.stopn = Len(hist.applied)]
  /\ UNCHANGED <<now, store, dep, rate, queue, USERS, heap, pc, loc, bg, cb, cbpc>>

(* ------------------------------ invalidate ----------------------------- *)
\* invalidate called; r_w.smembers(dep_key) answers
InvMembers(p, u) ==
  /\ Arrives(p)
  /\ loc' = [loc EXCEPT ![p] =
         [IdleLoc EXCEPT !.op = "invalidate", !.uid = u, !.key = UserKey(u),
                         !.members = dep[u].m, !.after = DoneProcs,
                         !.clean = ~Busy(u), !.count = Arrived(u) + 1]]
  /\ pc' = [pc EXCEPT ![p] = IF dep[u].m # {} THEN "inv_del" ELSE "inv_deldep"]
  /\ UNCHANGED <<now, store, dep, rate, queue, USERS, heap, bg, cb, cbpc, wpc, hist>>

\* variant: only one of the members is deleted
InvDelOne(p) ==
  /\ pc[p] = "inv_del"
  /\ LET one == {CHOOSE k \in loc[p].members : TRUE}
     IN /\ store' = Del(store, one)
        /\ hist' = Touch(hist, {k \in one : Get(k) # Nil})
  /\ pc' = [pc EXCEPT ![p] = "inv_deldep"]
  /\ UNCHANGED <<now, dep, rate, queue, USERS, heap, loc, bg, cb, cbpc, wpc>>

\* r_w.delete(*members) answers
InvDel(p) ==
  /\ pc[p] = "inv_del"
  /\ store' = Del(store, loc[p].members)
  /\ hist' = Touch(hist, {k \in loc[p].members : Get(k) # Nil})
  /\ pc' = [pc EXCEPT ![p] = "inv_deldep"]
  /\ UNCHANGED <<now, dep, rate, queue, USERS, heap, loc, bg, cb, cbpc, wpc>>

\* r_w.delete(dep_key) answers
InvDelDep(p) ==
  /\ pc[p] = "inv_deldep"
  /\ dep' = [dep EXCEPT ![loc[p].uid] = [m |-> {}, exp |-> 0]]
  /\ pc' = [pc EXCEPT ![p] = "inv_ret"]
  /\ UNCHANGED <<now, store, rate, queue, USERS, heap, loc, bg, cb, cbpc, wpc, hist>>

\* variant: an id without DependencySet is answered "not found"
InvRetStrict(p) ==
  /\ pc[p] = "inv_ret"
  /\ loc' = [loc EXCEPT ![p] =
         IF @.members = {} THEN Finish(@, "none", NoneV) ELSE Finish(@, "ok", NoneV)]
  /\ pc' = [pc EXCEPT ![p] = "done"]
  /\ UNCHANGED <<now, store, dep, rate, queue, USERS, heap, bg, cb, cbpc, wpc, hist>>

\* invalidate returns {"ok": True}
InvRet(p) ==
  /\ pc[p] = "inv_ret"
  /\ loc' = [loc EXCEPT ![p] = Finish(@, "ok", NoneV)]
  /\ pc' = [pc EXCEPT ![p] = "done"]
  /\ UNCHANGED <<now, store, dep, rate, queue, USERS, heap, bg, cb, cbpc, wpc, hist>>

(* ------------------------------ bulk_users ----------------------------- *)
MapV(m) == [t |-> "map", m |-> m]
Elems(q) == {q[i] : i \in 1..Len(q)}
\* with one more entry
With(f, u, v) == [x \in DOMAIN f \cup {u} |-> IF x = u THEN v ELSE f[x]]
\* hits[uid] = data["value"] for an SWR envelope, data otherwise
Unwrap(data) == IF "value" \in DOMAIN data THEN data.value ELSE data

\* bulk_users called; r_r.mget(keys) answers.  A blob that json.loads accepts
\* is a hit, no blob or one that raises JSONDecodeError is a miss; with no
\* miss the hits are returned
BkGet(p, ids, ttl) ==
  /\ Arrives(p)
  /\ LET raw == [u \in Elems(ids) |-> Get(UserKey(u))]
         hitset == {u \in Elems(ids) : raw[u] # Nil /\ json_ok(raw[u])}
         hits == [u \in hitset |-> Unwrap(json_loads(raw[u]))]
         misses == SelectSeq(ids, LAMBDA u : u \notin hitset)
         l0 == [IdleLoc EXCEPT !.op = "bulk", !.ttl = ttl, !.after = DoneProcs, !.tget = now,
                               !.bk = [NoBulk EXCEPT !.ids = ids, !.cache0 = raw]]
     IN IF misses = <<>>
        THEN /\ pc' = [pc EXCEPT ![p] = "done"]
             /\ loc' = [loc EXCEPT ![p] = Finish(l0, "ok", MapV(hits))]
        ELSE /\ pc' = [pc EXCEPT ![p] = "bk_load"]
             /\ loc' = [loc EXCEPT ![p] =
                    [l0 EXCEPT !.miss = TRUE, !.bk.hits = hits, !.bk.misses = misses, !.bk.i = 1]]
  /\ UNCHANGED <<now, store, dep, rate, queue, USERS, heap, bg, cb, cbpc, wpc, hist>>

\* db_get_user_async answers for the next miss; after the last one the
\* pipeline is filled with json.dumps of each fetched dict, or the marker
BkLoad(p) ==
  /\ pc[p] = "bk_load"
  /\ LET b == loc[p].bk
         u == b.misses[b.i]
         fetched == With(b.fetched, u, USERS[u])
         b1 == [b EXCEPT !.fetched = fetched, !.i = @ + 1, !.orig = With(@, u, OriginRec(u))]
     IN IF b.i < Len(b.misses)
        THEN /\ pc' = pc
             /\ loc' = [loc EXCEPT ![p].bk = b1, ![p].loads = @ + 1]
        ELSE /\ pc' = [pc EXCEPT ![p] = "bk_pipe"]
             /\ loc' = [loc EXCEPT ![p].loads = @ + 1, ![p].bk =
                    [b1 EXCEPT !.sers = [x \in Elems(b.misses) |->
                        IF fetched[x] = 0 THEN NilMarker ELSE json_dumps(heap[fetched[x]])]]]
  /\ UNCHANGED <<now, store, dep, rate, queue, USERS, heap, bg, cb, cbpc, wpc, hist>>

\* variant: an id the origin does not hold gets no SETEX (no marker)
BkWritesNoMarker(b, js) ==
  [k \in {UserKey(u) : u \in {x \in DOMAIN b.sers : b.fetched[x] # 0}} |->
     LET u == CHOOSE x \in DOMAIN b.sers : UserKey(x) = k
     IN [v |-> b.sers[u], ttl |-> js[u]]]

\* the entries of the pipeline with the TTL of each: NEG_TTL for the marker
BkWrites(b, js) ==
  [k \in {UserKey(u) : u \in DOMAIN b.sers} |->
     LET u == CHOOSE x \in DOMAIN b.sers : UserKey(x) = k
     IN [v |-> b.sers[u], ttl |-> IF b.fetched[u] = 0 THEN NEG_TTL ELSE js[u]]]

\* variant: hits.update(fetched), the ids that are None included
BkResultAll(b, h) ==
  [u \in DOMAIN b.hits \cup DOMAIN b.fetched |->
     IF u \in DOMAIN b.fetched
     THEN (IF b.fetched[u] = 0 THEN FreeObj ELSE h[b.fetched[u]])
     ELSE b.hits[u]]

\* hits.update({uid: v for uid, v in fetched.items() if v is not None})
BkResult(b, h) ==
  [u \in DOMAIN b.hits \cup {x \in DOMAIN b.fetched : b.fetched[x] # 0} |->
     IF u \in DOMAIN b.fetched THEN h[b.fetched[u]] ELSE b.hits[u]]

\* pipe.execute() answers: each SETEX with a positive TTL is applied, a refused
\* one makes execute() raise; otherwise the hits are returned
BkPipe(p) ==
  /\ pc[p] = "bk_pipe"
  /\ \E js \in [DOMAIN loc[p].bk.sers -> WithJitter(loc[p].ttl)] :
       LET w == BkWrites(loc[p].bk, js)
           oks == {k \in DOMAIN w : SetExOk(w[k].ttl)}
           l1 == [loc[p] EXCEPT !.bk = [@ EXCEPT !.hits = EmptyMap, !.misses = <<>>, !.i = 0,
                                                  !.fetched = EmptyMap, !.sers = EmptyMap],
                                !.tset = now]
       IN /\ store' = [k \in DOMAIN store |->
                         IF k \in oks THEN [v |-> w[k].v, exp |-> now + w[k].ttl] ELSE store[k]]
          /\ hist' = Touch(hist, oks)
          /\ loc' = [loc EXCEPT ![p] =
                 IF oks # DOMAIN w THEN Finish(l1, "error", NoneV)
                 ELSE Finish(l1, "ok", MapV(BkResult(loc[p].bk, heap)))]
  /\ pc' = [pc EXCEPT ![p] = "done"]
  /\ heap' = Collect(heap, USERS, loc')
  /\ UNCHANGED <<now, dep, rate, queue, USERS, bg, cb, cbpc, wpc>>

(* ------------------------------ recompute ------------------------------ *)
\* variant: the lock is written with a plain SET, which always succeeds
RcLockPlain(p) ==
  /\ Arrives(p)
  /\ store' = SetEx(store, RecomputeKey, RECOMPUTE_LOCK_TTL, One)
  /\ hist' = Touch(hist, {RecomputeKey})
  /\ pc' = [pc EXCEPT ![p] = "rc_work"]
  /\ loc' = [loc EXCEPT ![p] =
         [IdleLoc EXCEPT !.op = "recompute", !.key = RecomputeKey, !.after = DoneProcs,
                         !.tget = now, !.started = 1, !.gver = hist.ver[RecomputeKey] + 1]]
  /\ UNCHANGED <<now, dep, rate, queue, USERS, heap, bg, cb, cbpc, wpc>>

\* recompute_all called; r_w.set(lock_key, "1", ex=10, nx=True) answers: the
\* winner goes on to the work, a loser raises 423 at once
RcLock(p) ==
  /\ Arrives(p)
  /\ LET l0 == [IdleLoc EXCEPT !.op = "recompute", !.key = RecomputeKey,
                               !.after = DoneProcs, !.tget = now]
     IN IF SetNxOk(RecomputeKey)
        THEN /\ store' = SetNx(store, RecomputeKey, RECOMPUTE_LOCK_TTL, One)
             /\ hist' = Touch(hist, {RecomputeKey})
             /\ pc' = [pc EXCEPT ![p] = "rc_work"]
             /\ loc' = [loc EXCEPT ![p] =
                    [l0 EXCEPT !.started = 1, !.gver = hist.ver[RecomputeKey] + 1]]
        ELSE /\ pc' = [pc EXCEPT ![p] = "done"]
             /\ loc' = [loc EXCEPT ![p] = Finish([l0 EXCEPT !.tset = now], "locked", NoneV)]
             /\ UNCHANGED <<store, hist>>
  /\ UNCHANGED <<now, dep, rate, queue, USERS, heap, bg, cb, cbpc, wpc>>

\* the work (asyncio.sleep(0.2)) is over; the finally clause calls delete
RcWork(p) ==
  /\ pc[p] = "rc_work"
  /\ pc' = [pc EXCEPT ![p] = "rc_unlock"]
  /\ UNCHANGED <<now, store, dep, rate, queue, USERS, heap, loc, bg, cb, cbpc, wpc, hist>>

\* finally: r_w.delete(lock_key) answers, whoever holds the lock now; the
\* request returns {"ok": True}
RcUnlock(p) ==
  /\ pc[p] = "rc_unlock"
  /\ store' = Del(store, {RecomputeKey})
  /\ hist' = IF Get(RecomputeKey) # Nil THEN Touch(hist, {RecomputeKey}) ELSE hist
  /\ loc' = [loc EXCEPT ![p] =
         Finish([@ EXCEPT !.tset = now, !.sver = hist.ver[RecomputeKey]], "ok", NoneV)]
  /\ pc' = [pc EXCEPT ![p] = "done"]
  /\ UNCHANGED <<now, dep, rate, queue, USERS, heap, bg, cb, cbpc, wpc>>

(* ----------------------------- rate limiter ---------------------------- *)
\* token_bucket called for identity i; the pipeline (incr, expire) is executed
\* and the request is admitted when the count is within max_tokens.  When the
\* pipeline raises the request is admitted; the store may or may not have
\* executed the commands before the failure.
TokenBucketStrict(count, max_tokens) == count < max_tokens
TokenBucketAllows(count, max_tokens) == count <= max_tokens

\* variant: an exception of the pipeline rejects the request
RateReqFailClosed(p, i, fails) ==
  /\ Arrives(p)
  /\ LET n == rate[i].n + 1
         l0 == [IdleLoc EXCEPT !.op = "rate", !.uid = i, !.after = DoneProcs, !.tget = now]
     IN IF fails
        THEN /\ loc' = [loc EXCEPT ![p] = Finish(l0, "limited", NoneV)]
             /\ rate' = rate
        ELSE /\ rate' = [rate EXCEPT ![i] = [n |-> n, exp |-> now + RATE_WINDOW_SEC]]
             /\ loc' = [loc EXCEPT ![p] =
                    Finish([l0 EXCEPT !.count = n],
                           IF TokenBucketAllows(n, RATE_MAX_TOKENS) THEN "ok" ELSE "limited",
                           NoneV)]
  /\ pc' = [pc EXCEPT ![p] = "done"]
  /\ UNCHANGED <<now, store, dep, queue, USERS, heap, bg, cb, cbpc, wpc, hist>>

RateReq(p, i, fails) ==
  /\ Arrives(p)
  /\ LET n == rate[i].n + 1
         l0 == [IdleLoc EXCEPT !.op = "rate", !.uid = i, !.after = DoneProcs, !.tget = now]
     IN IF fails
        THEN /\ loc' = [loc EXCEPT ![p] = Finish([l0 EXCEPT !.err = TRUE], "ok", NoneV)]
             /\ \E counted \in BOOLEAN :
                  rate' = IF counted
                          THEN [rate EXCEPT ![i] = [n |-> n, exp |-> now + RATE_WINDOW_SEC]]
                          ELSE rate
        ELSE /\ rate' = [rate EXCEPT ![i] = [n |-> n, exp |-> now + RATE_WINDOW_SEC]]
             /\ loc' = [loc EXCEPT ![p] =
                    Finish([l0 EXCEPT !.count = n],
                           IF TokenBucketAllows(n, RATE_MAX_TOKENS) THEN "ok" ELSE "limited",
                           NoneV)]
  /\ pc' = [pc EXCEPT ![p] = "done"]
  /\ UNCHANGED <<now, store, dep, queue, USERS, heap, bg, cb, cbpc, wpc, hist>>

(* ---------------------------- circuit breaker -------------------------- *)
\* CircuitBreaker.can_attempt, with the state it leaves behind
CanAttempt(b) == ~b.is_open \/ now - b.last_failure_time > RECOVERY_TIMEOUT
\* variant: recovery closes the breaker and keeps the count
AfterCanAttemptKeepsCount(b) ==
  IF b.is_open /\ now - b.last_failure_time > RECOVERY_TIMEOUT
  THEN [b EXCEPT !.is_open = FALSE] ELSE b
AfterCanAttempt(b) ==
  IF b.is_open /\ now - b.last_failure_time > RECOVERY_TIMEOUT
  THEN [b EXCEPT !.is_open = FALSE, !.failure_count = 0] ELSE b
RecordSuccess(b) == [b EXCEPT !.failure_count = 0, !.is_open = FALSE]
RecordFailure(b) ==
  [b EXCEPT !.failure_count = @ + 1, !.last_failure_time = now,
            !.is_open = (b.failure_count + 1 >= FAILURE_THRESHOLD) \/ @]

\* history: the call that can_attempt lets through on an open breaker once
\* recovery_timeout has passed is the probe; the calls let through while the
\* probe is in flight are late; both are forgotten when the call ends
IsProbe(b) == b.is_open /\ now - b.last_failure_time > RECOVERY_TIMEOUT
CallEnds(h, p) ==
  [h EXCEPT !.probe = IF @ = p THEN 0 ELSE @,
            !.late = IF h.probe = p THEN {} ELSE @ \ {p}]

\* safe_redis_operation called: the fallback at once when the breaker refuses,
\* else the store operation is awaited
CbCall(p) ==
  /\ cbpc[p] = "idle"
  /\ hist.calls < MaxCalls
  /\ cb' = AfterCanAttempt(cb)
  /\ cbpc' = [cbpc EXCEPT ![p] = IF CanAttempt(cb) THEN "inflight" ELSE "idle"]
  /\ hist' = [hist EXCEPT !.calls = @ + 1,
                          !.tripped = IF now - hist.tfail > RECOVERY_TIMEOUT THEN FALSE ELSE @,
                          !.probe = IF IsProbe(cb) THEN p ELSE @,
                          !.late = IF hist.probe # 0 /\ CanAttempt(cb) THEN @ \cup {p} ELSE @]
  /\ UNCHANGED <<now, store, dep, rate, queue, USERS, heap, pc, loc, bg, wpc>>

\* the store operation returned
CbSuccess(p) ==
  /\ cbpc[p] = "inflight"
  /\ cb' = RecordSuccess(cb)
  /\ cbpc' = [cbpc EXCEPT ![p] = "idle"]
  /\ hist' = [CallEnds(hist, p) EXCEPT !.consec = 0]
  /\ UNCHANGED <<now, store, dep, rate, queue, USERS, heap, pc, loc, bg, wpc>>

\* the store operation raised ConnectionError or TimeoutError
CbFailure(p) ==
  /\ cbpc[p] = "inflight"
  /\ cb' = RecordFailure(cb)
  /\ cbpc' = [cbpc EXCEPT ![p] = "idle"]
  /\ hist' = [CallEnds(hist, p) EXCEPT !.consec = @ + 1,
                          !.tripped = @ \/ (hist.consec + 1 >= FAILURE_THRESHOLD),
                          !.tfail = now]
  /\ UNCHANGED <<now, store, dep, rate, queue, USERS, heap, pc, loc, bg, wpc>>

\* the store operation raised another exception: nothing is recorded
CbOtherError(p) ==
  /\ cbpc[p] = "inflight"
  /\ cbpc' = [cbpc EXCEPT ![p] = "idle"]
  /\ hist' = CallEnds(hist, p)
  /\ UNCHANGED <<now, store, dep, rate, queue, USERS, heap, pc, loc, bg, cb, wpc>>

(* ---------------------------- specifications --------------------------- *)
TTLs == {1, 2}
\* the inputs of the requests
PatchNames == {"N1", "N2"}
BulkIds == {<<"1", "3">>, <<"2", "3", "1">>}
StrategyNames == ValidStrategies \cup {"bulk", "SWR"}
Modes == {"write-through", "write-behind"}

\* singleflight reads of the existing user "1"
NextSF ==
  \/ Tick
  \/ \E p \in Reqs : SfGet(p, "1", 2)
  \/ \E p \in Reqs : SfLock(p)
  \/ \E p \in Reqs : SfLoad(p)
  \/ \E p \in Reqs : SfPipe(p)
  \/ \E p \in Reqs : SfUnlock(p)
  \/ \E p \in Reqs : SfReread(p)

SpecSF == Init /\ [][NextSF]_vars

\* SWR reads of user "1" with ttl 1 and stale_grace 2
NextSWR ==
  \/ Tick
  \/ \E p \in Reqs : SwrGet(p, "1", 1, 2)
  \/ \E p \in Reqs : SwrLock(p)
  \/ \E p \in Reqs : SwrLoad(p)
  \/ \E p \in Reqs : SwrSet(p)
  \/ \E p \in Reqs : BgLoad(p)
  \/ \E p \in Reqs : BgSet(p)
  \/ \E p \in Reqs : BgUnlock(p)

SpecSWR == Init /\ [][NextSWR]_vars

\* updates of one id in both modes, the worker, and cache-aside reads of it
NextWT ==
  \/ \E p \in Reqs, n \in PatchNames, m \in Modes : UpdRead(p, "1", n, NoStr, m)
  \/ \E p \in Reqs : UpdDb(p)
  \/ \E p \in Reqs : UpdEnq(p)
  \/ \E p \in Reqs : UpdPipe(p)
  \/ \E p \in Reqs : UpdRet(p)
  \/ WPop(1)
  \/ WApply(1)
  \/ \E p \in Reqs : CaGet(p, "1", 2)
  \/ \E p \in Reqs : CaLoad(p)
  \/ \E p \in Reqs : CaSet(p)

SpecWT == Init /\ [][NextWT]_vars

\* callers of safe_redis_operation
NextCB ==
  \/ Tick
  \/ \E p \in Reqs : CbCall(p)
  \/ \E p \in Reqs : CbSuccess(p)
  \/ \E p \in Reqs : CbFailure(p)
  \/ \E p \in Reqs : CbOtherError(p)

SpecCB == Init /\ [][NextCB]_vars

\* requests of one identity through the rate limiter, the counter backend up
NextRate ==
  \/ Tick
  \/ \E p \in Reqs, i \in Idents : RateReq(p, i, FALSE)

SpecRate == Init /\ [][NextRate]_vars

\* requests of two identities, the counter backend failing at times
NextRateF ==
  \/ Tick
  \/ \E p \in Procs, i \in Idents, fails \in BOOLEAN : RateReq(p, i, fails)

SpecRateF == Init /\ [][NextRateF]_vars

\* cache-aside reads of user "1", with write-through updates and
\* invalidations of it
NextCA ==
  \/ Tick
  \/ \E p \in Reqs, t \in TTLs : CaGet(p, "1", t)
  \/ \E p \in Reqs : CaLoad(p)
  \/ \E p \in Reqs : CaSet(p)
  \/ \E p \in Reqs : UpdRead(p, "1", "N1", NoStr, "write-through")
  \/ \E p \in Reqs : UpdDb(p)
  \/ \E p \in Reqs : UpdPipe(p)
  \/ \E p \in Reqs : UpdRet(p)
  \/ \E p \in Reqs : InvMembers(p, "1")
  \/ \E p \in Reqs : InvDel(p)
  \/ \E p \in Reqs : InvDelDep(p)
  \/ \E p \in Reqs : InvRet(p)

SpecCA == Init /\ [][NextCA]_vars

\* write-through updates and invalidations of user "1", nothing else
NextUI ==
  \/ Tick
  \/ \E p \in Reqs, n \in PatchNames : UpdRead(p, "1", n, NoStr, "write-through")
  \/ \E p \in Reqs : UpdDb(p)
  \/ \E p \in Reqs : UpdPipe(p)
  \/ \E p \in Reqs : UpdRet(p)
  \/ \E p \in Reqs : InvMembers(p, "1")
  \/ \E p \in Reqs : InvDel(p)
  \/ \E p \in Reqs : InvDelDep(p)
  \/ \E p \in Reqs : InvRet(p)

SpecUI == Init /\ [][NextUI]_vars

\* negative-cache reads of the missing user "3", with write-through updates
\* (which create it) and invalidations of it
NextNeg ==
  \/ Tick
  \/ \E p \in Reqs : NegGet(p, "3", 2)
  \/ \E p \in Reqs : NegLoad(p)
  \/ \E p \in Reqs : NegSet(p)
  \/ \E p \in Reqs : UpdRead(p, "3", "N1", NoStr, "write-through")
  \/ \E p \in Reqs : UpdDb(p)
  \/ \E p \in Reqs : UpdPipe(p)
  \/ \E p \in Reqs : UpdRet(p)
  \/ \E p \in Reqs : InvMembers(p, "3")
  \/ \E p \in Reqs : InvDel(p)
  \/ \E p \in Reqs : InvDelDep(p)
  \/ \E p \in Reqs : InvRet(p)

SpecNeg == Init /\ [][NextNeg]_vars

\* reads of one id by every strategy and write-through updates of it, within
\* one clock unit (no entry expires or goes stale): the id "1" of the origin,
\* and the id "3" that only an update creates
NextRW ==
  \/ \E p \in Reqs, u \in {"1", "3"} : CaGet(p, u, 2)
  \/ \E p \in Reqs : CaLoad(p)
  \/ \E p \in Reqs : CaSet(p)
  \/ \E p \in Reqs, u \in {"1", "3"} : NegGet(p, u, 2)
  \/ \E p \in Reqs : NegLoad(p)
  \/ \E p \in Reqs : NegSet(p)
  \/ \E p \in Reqs : SwrGet(p, "1", 1, 2)
  \/ \E p \in Reqs : SwrLoad(p)
  \/ \E p \in Reqs : SwrSet(p)
  \/ \E p \in Reqs, u \in {"1", "3"} : UpdRead(p, u, "N1", NoStr, "write-through")
  \/ \E p \in Reqs : UpdDb(p)
  \/ \E p \in Reqs : UpdPipe(p)
  \/ \E p \in Reqs : UpdRet(p)

SpecRW == InitRec /\ [][NextRW]_vars

\* write-behind updates of the new id "3", the worker of the service,
\* invalidations and cache-aside reads of the id
NextWBR ==
  \/ \E p \in Reqs : UpdRead(p, "3", "N1", NoStr, "write-behind")
  \/ \E p \in Reqs : UpdEnq(p)
  \/ \E p \in Reqs : UpdPipe(p)
  \/ \E p \in Reqs : UpdRet(p)
  \/ WPop(1)
  \/ WApply(1)
  \/ \E p \in Reqs : InvMembers(p, "3")
  \/ \E p \in Reqs : InvDel(p)
  \/ \E p \in Reqs : InvDelDep(p)
  \/ \E p \in Reqs : InvRet(p)
  \/ \E p \in Reqs : CaGet(p, "3", 2)
  \/ \E p \in Reqs : CaLoad(p)
  \/ \E p \in Reqs : CaSet(p)

SpecWBR == InitRec /\ [][NextWBR]_vars

\* calls of recompute_all, the clock running
NextRC ==
  \/ Tick
  \/ \E p \in Procs : RcLock(p)
  \/ \E p \in Procs : RcWork(p)
  \/ \E p \in Procs : RcUnlock(p)

SpecRC == Init /\ [][NextRC]_vars

\* the three locks with a loader that may raise: singleflight reads of the
\* ids "1" and "3", SWR reads of "1" with their refresh tasks, recompute calls
NextLK ==
  \/ Tick
  \/ \E p \in 1..2, u \in {"1", "3"} : SfGet(p, u, 2)
  \/ \E p \in 1..2 : SfLock(p)
  \/ \E p \in 1..2 : SfLoad(p)
  \/ \E p \in 1..2 : SfLoadRaises(p)
  \/ \E p \in 1..2 : SfPipe(p)
  \/ \E p \in 1..2 : SfUnlock(p)
  \/ \E p \in 1..2 : SfReread(p)
  \/ \E p \in 1..2 : SwrGet(p, "1", 1, 2)
  \/ \E p \in 1..2 : SwrLock(p)
  \/ \E p \in 1..2 : SwrLoad(p)
  \/ \E p \in 1..2 : SwrSet(p)
  \/ \E p \in 1..2 : BgLoad(p)
  \/ \E p \in 1..2 : BgLoadRaises(p)
  \/ \E p \in 1..2 : BgSet(p)
  \/ \E p \in 1..2 : BgUnlock(p)
  \/ \E p \in Reqs : RcLock(p)
  \/ \E p \in Reqs : RcWork(p)
  \/ \E p \in Reqs : RcUnlock(p)

SpecLK == Init /\ [][NextLK]_vars

\* bulk reads, with the reads that leave an envelope or the marker in the
\* cache and with write-through updates of the ids "1" and "3", which leave
\* a record
NextBK ==
  \/ \E p \in Reqs, ids \in BulkIds : BkGet(p, ids, 2)
  \/ \E p \in Reqs : BkLoad(p)
  \/ \E p \in Reqs : BkPipe(p)
  \/ \E p \in 1..2 : NegGet(p, "3", 2)
  \/ \E p \in 1..2 : NegLoad(p)
  \/ \E p \in 1..2 : NegSet(p)
  \/ \E p \in 1..2 : SwrGet(p, "1", 1, 2)
  \/ \E p \in 1..2 : SwrLoad(p)
  \/ \E p \in 1..2 : SwrSet(p)
  \/ \E p \in Reqs, u \in {"1", "3"} : UpdRead(p, u, "N1", NoStr, "write-through")
  \/ \E p \in Reqs : UpdDb(p)
  \/ \E p \in Reqs : UpdPipe(p)
  \/ \E p \in Reqs : UpdRet(p)

SpecBK == Init /\ [][NextBK]_vars

\* GET /users/1 with any strategy name, ttl 2 and stale_grace 2
NextGU ==
  \/ \E p \in Reqs, str \in StrategyNames : GetUser(p, "1", str, 2, 2)
  \/ \E p \in Reqs : CaLoad(p)
  \/ \E p \in Reqs : CaSet(p)
  \/ \E p \in Reqs : SfLock(p)
  \/ \E p \in Reqs : SfLoad(p)
  \/ \E p \in Reqs : SfPipe(p)
  \/ \E p \in Reqs : SfUnlock(p)
  \/ \E p \in Reqs : SfReread(p)
  \/ \E p \in Reqs : SwrLoad(p)
  \/ \E p \in Reqs : SwrSet(p)
  \/ \E p \in Reqs : NegLoad(p)
  \/ \E p \in Reqs : NegSet(p)

SpecGU == Init /\ [][NextGU]_vars

\* GET /users/1 with each of the strategies, the loader raising at times
NextLR ==
  \/ \E p \in Reqs, str \in ValidStrategies : GetUser(p, "1", str, 2, 2)
  \/ \E p \in Reqs : CaLoad(p)
  \/ \E p \in Reqs : CaLoadRaises(p)
  \/ \E p \in Reqs : CaSet(p)
  \/ \E p \in Reqs : SfLock(p)
  \/ \E p \in Reqs : SfLoad(p)
  \/ \E p \in Reqs : SfLoadRaises(p)
  \/ \E p \in Reqs : SfPipe(p)
  \/ \E p \in Reqs : SfUnlock(p)
  \/ \E p \in Reqs : SfReread(p)
  \/ \E p \in Reqs : SwrLoad(p)
  \/ \E p \in Reqs : SwrLoadRaises(p)
  \/ \E p \in Reqs : SwrSet(p)
  \/ \E p \in Reqs : NegLoad(p)
  \/ \E p \in Reqs : NegLoadRaises(p)
  \/ \E p \in Reqs : NegSet(p)

SpecLR == Init /\ [][NextLR]_vars

\* SWR reads of the id "1" with ttl 1 and stale_grace 2 and their refresh
\* tasks, the second request being a write-through update of the id
NextSWRU ==
  \/ Tick
  \/ \E p \in Procs : SwrGet(p, "1", 1, 2)
  \/ \E p \in Procs : SwrLock(p)
  \/ \E p \in Procs : SwrLoad(p)
  \/ \E p \in Procs : SwrSet(p)
  \/ \E p \in Procs : BgLoad(p)
  \/ \E p \in Procs : BgSet(p)
  \/ \E p \in Procs : BgUnlock(p)
  \/ \E p \in {2} : UpdRead(p, "1", "N1", NoStr, "write-through")
  \/ \E p \in {2} : UpdDb(p)
  \/ \E p \in {2} : UpdPipe(p)
  \/ \E p \in {2} : UpdRet(p)

SpecSWRU == InitRec /\ [][NextSWRU]_vars

\* SWR reads of the id "1" with ttl 2 and stale_grace 10, the origin unchanged
NextSWR4 ==
  \/ Tick
  \/ \E p \in Procs : SwrGet(p, "1", 2, 10)
  \/ \E p \in Procs : SwrLock(p)
  \/ \E p \in Procs : BgLoad(p)
  \/ \E p \in Procs : BgSet(p)
  \/ \E p \in Procs : BgUnlock(p)
  \/ \E p \in Procs : SwrLoad(p)
  \/ \E p \in Procs : SwrSet(p)

SpecSWR4 == Init /\ [][NextSWR4]_vars

\* two callers of safe_redis_operation next to two requests, each a cache-aside
\* read or a rate-limited request
NextCBS ==
  \/ Tick
  \/ \E p \in 1..2 : CbCall(p)
  \/ \E p \in 1..2 : CbSuccess(p)
  \/ \E p \in 1..2 : CbFailure(p)
  \/ \E p \in 1..2 : CbOtherError(p)
  \/ \E p \in 1..2 : CaGet(p, "1", 2)
  \/ \E p \in 1..2 : CaLoad(p)
  \/ \E p \in 1..2 : CaSet(p)
  \/ \E p \in 1..2 : RateReq(p, "anon", FALSE)

SpecCBS == Init /\ [][NextCBS]_vars

\* NWriters write-behind updates of the id "1" and the workers on the queue
NextWB ==
  \/ \E p \in 1..NWriters, n \in PatchNames : UpdRead(p, "1", n, NoStr, "write-behind")
  \/ \E p \in 1..NWriters : UpdEnq(p)
  \/ \E p \in 1..NWriters : UpdPipe(p)
  \/ \E p \in 1..NWriters : UpdRet(p)
  \/ \E w \in Workers : WPop(w)
  \/ \E w \in Workers : WApply(w)

SpecWB == InitRec /\ [][NextWB]_vars

\* NWriters write-behind updates of the ids "1" and "3" and the worker of the service, which
\* keeps running: a step it can take is taken in the end
NextWB1 ==
  \/ \E p \in 1..NWriters, u \in {"1", "3"}, n \in PatchNames :
       UpdRead(p, u, n, NoStr, "write-behind")
  \/ \E p \in 1..NWriters : UpdEnq(p)
  \/ \E p \in 1..NWriters : UpdPipe(p)
  \/ \E p \in 1..NWriters : UpdRet(p)
  \/ WPop(1)
  \/ WApply(1)

SpecWB1 == InitRec /\ [][NextWB1]_vars /\ WF_vars(WPop(1)) /\ WF_vars(WApply(1))

\* write-behind updates of the id "1" by NWriters requests, the worker of the
\* service, and the shutdown of the service at any point; the worker keeps
\* running: a step it can take is taken in the end
NextStop ==
  \/ \E p \in 1..NWriters, n \in PatchNames : UpdRead(p, "1", n, NoStr, "write-behind")
  \/ \E p \in 1..NWriters : UpdEnq(p)
  \/ \E p \in 1..NWriters : UpdPipe(p)
  \/ \E p \in 1..NWriters : UpdRet(p)
  \/ WPop(1)
  \/ WApply(1)
  \/ WTimeout(1)
  \/ Shutdown

SpecStop ==
  InitRec /\ [][NextStop]_vars /\ WF_vars(WPop(1)) /\ WF_vars(WApply(1)) /\ WF_vars(WTimeout(1))

(* ------------------------------ properties ----------------------------- *)
Done(p, op) == pc[p] = "done" /\ loc[p].op = op
Readers(op, k) == {p \in Procs : pc[p] # "idle" /\ loc[p].op = op /\ loc[p].key = k}
Concurrent(ps) == \A p, q \in ps : p \notin loc[q].after

\* C1: singleflight readers of one key that run concurrently and all find the
\* key missing, with no expiry of the build lock, invoke the loader at most
\* once in total.
C1_LoaderAtMostOnce ==
  \A k \in UserKeys :
    LET rs == Readers("singleflight", k)
    IN (/\ \A p \in rs : loc[p].miss
        /\ Concurrent(rs)
        /\ LockKey(k) \notin hist.expired)
       => Cardinality({p \in rs : loc[p].loads = 1}) <= 1

\* C9: two singleflight loaders of one key are never in progress together
\* while the build lock each of them set is still within its TTL window (the
\* later one may start only once the earlier holder released its lock or that
\* lock's TTL ran out).
C9_OneLoaderPerLockWindow ==
  \A p, q \in Procs :
    (p # q /\ pc[p] = "sf_load" /\ pc[q] = "sf_load" /\ loc[p].key = loc[q].key)
    => ~(now < loc[p].t0 + REBUILD_LOCK_TTL /\ now < loc[q].t0 + REBUILD_LOCK_TTL)

\* C10: every singleflight reader that missed a key whose origin record exists
\* receives a value: none returns not-found or an error.
C10_AllReadersGetValue ==
  \A p \in Procs :
    (Done(p, "singleflight") /\ loc[p].miss /\ USERS[loc[p].uid] # 0)
    => loc[p].st = "ok"

\* the completed SWR reads that found the same stale entry as p did
StaleReaders(p) ==
  {q \in Procs : pc[q] = "done" /\ loc[q].op = "swr" /\ loc[q].stale
                 /\ loc[q].key = loc[p].key /\ loc[q].gver = loc[p].gver}

\* C2: a read of a stale SWR entry returns a value without calling the loader,
\* and among the reads of one stale entry exactly one started a refresh (even
\* when no refresh lock ever expired).
C2_ExactlyOneRefresh ==
  \A p \in Procs :
    (Done(p, "swr") /\ loc[p].stale /\ SwrLockKey(loc[p].key) \notin hist.expired)
    => /\ loc[p].st = "ok" /\ loc[p].loads = 0
       /\ Cardinality({q \in StaleReaders(p) : loc[q].started = 1}) = 1

\* C4: once failure_threshold consecutive failures were recorded, and until
\* more than recovery_timeout has passed since the last failure, a call of
\* safe_redis_operation is refused (the breaker lets no call through).
C4_OpenUntilTimeout ==
  (hist.tripped /\ now - hist.tfail <= RECOVERY_TIMEOUT) => ~CanAttempt(cb)

\* the requests of p's identity counted before p; p falls in the window that
\* the first request of its identity opened
RateBefore(p) == {q \in loc[p].after : loc[q].op = "rate" /\ loc[q].uid = loc[p].uid}
InFirstWindow(p) ==
  \A q \in RateBefore(p) : RateBefore(q) = {} => loc[p].tget < loc[q].tget + RATE_WINDOW_SEC

\* C5: of the requests of one identity that fall in the window that its first
\* request opened (window_sec from that request), with the counter backend
\* answering, the first max_tokens are admitted and every later one, the
\* (max_tokens+1)-th included, is rejected.
C5_RateBoundary ==
  \A p \in Procs :
    (Done(p, "rate") /\ InFirstWindow(p))
    => (loc[p].st = "ok" <=> Cardinality(RateBefore(p)) + 1 <= RATE_MAX_TOKENS)
C5_Witness ==
  \E p \in Procs :
    /\ Done(p, "rate") /\ InFirstWindow(p)
    /\ Cardinality(RateBefore(p)) = RATE_MAX_TOKENS
    /\ loc[p].st = "limited"

\* the record cached under the key of id u is the record the origin holds
CacheIsOrigin(u) ==
  /\ USERS[u] # 0
  /\ Get(UserKey(u)).t = "json"
  /\ json_loads(Get(UserKey(u))) = heap[USERS[u]]

\* no other request on the id of request p was under way when p arrived (no
\* queued write-behind message either) and none has arrived since
Alone(p) == loc[p].clean /\ Arrived(loc[p].uid) = loc[p].count

\* C3 as stated: whenever a write-through update is about to return, the
\* record cached for its id equals the origin's record, in every interleaving.
C3_ConsistentOnReturn ==
  \A p \in Procs :
    (pc[p] = "upd_ret" /\ loc[p].mode = "write-through") => CacheIsOrigin(loc[p].uid)

\* C3 amended: whenever a write-through update is about to return and no other
\* request on its id overlapped with it, the record cached for its id equals
\* the origin's record.
C3_ConsistentWhenAlone ==
  \A p \in Procs :
    (pc[p] = "upd_ret" /\ loc[p].mode = "write-through" /\ Alone(p))
    => CacheIsOrigin(loc[p].uid)
C3_Witness ==
  \E p \in Procs :
    /\ pc[p] = "upd_ret" /\ loc[p].mode = "write-through" /\ Alone(p)
    /\ loc[p].after # {}
    /\ CacheIsOrigin(loc[p].uid)
    /\ heap[USERS[loc[p].uid]].name \in PatchNames

\* C7: a cache-aside read that follows a completed cache-aside read of the
\* same key which missed and loaded a value, the key not written, deleted or
\* expired in between, returns the identical value and calls no loader.
C7_RepeatableRead ==
  \A a, b \in Procs :
    (/\ Done(a, "cache-aside") /\ Done(b, "cache-aside")
     /\ loc[a].key = loc[b].key /\ a \in loc[b].after
     /\ loc[a].miss /\ loc[a].st = "ok"
     /\ loc[b].gver = loc[a].sver)
    => (loc[b].st = "ok" /\ loc[b].ret = loc[a].ret /\ loc[b].loads = 0)

\* b is a negative-cache read that follows the completed negative-cache read a
\* of the same key, whose loader returned absent, within NEG_TTL of the marker
NegFollows(a, b) ==
  /\ Done(a, "negative") /\ Done(b, "negative")
  /\ loc[a].key = loc[b].key /\ a \in loc[b].after
  /\ loc[a].miss /\ loc[a].st = "none"
  /\ loc[b].tget < loc[a].tset + NEG_TTL

\* C6 as stated: such a read returns absent and calls no loader.
C6_Suppressed ==
  \A a, b \in Procs : NegFollows(a, b) => (loc[b].st = "none" /\ loc[b].loads = 0)

\* C6 amended: such a read, the key not written or deleted in between, returns
\* absent and calls no loader.
C6_SuppressedUnlessWritten ==
  \A a, b \in Procs :
    (NegFollows(a, b) /\ loc[b].gver = loc[a].sver)
    => (loc[b].st = "none" /\ loc[b].loads = 0)
C6_Witness ==
  \E a, b \in Procs :
    /\ NegFollows(a, b) /\ loc[b].gver = loc[a].sver
    /\ loc[b].tget > loc[a].tset
    /\ loc[b].st = "none" /\ loc[b].loads = 0

\* every key that was a member of the DependencySet when call p read it is
\* absent, and so is the DependencySet
Invalidated(p) ==
  /\ \A k \in loc[p].members : Get(k) = Nil
  /\ dep[loc[p].uid].m = {}

\* C8 as stated: whenever invalidate is about to return, every key that was a
\* member of the DependencySet when the call read it is absent, and so is the
\* DependencySet.
C8_MembersGone ==
  \A p \in Procs : pc[p] = "inv_ret" => Invalidated(p)

\* C8 amended: the same, for a call that no other request on the id overlaps.
C8_MembersGoneWhenAlone ==
  \A p \in Procs : (pc[p] = "inv_ret" /\ Alone(p)) => Invalidated(p)
C8_Witness ==
  \E p \in Procs :
    /\ pc[p] = "inv_ret" /\ Alone(p) /\ Invalidated(p)
    /\ loc[p].members = {UserKey(loc[p].uid), WidgetKey(loc[p].uid)}

\* b is a cache-aside read that follows the completed update u of the same id,
\* the key not written, deleted or expired between u's pipeline and b's GET
ReadsWriteOf(u, b) ==
  /\ Done(u, "update") /\ Done(b, "cache-aside")
  /\ loc[b].key = loc[u].key /\ u \in loc[b].after
  /\ loc[b].gver = loc[u].sver

\* no other request on the id of request p overlapped with p
Apart(p) ==
  /\ loc[p].clean
  /\ \A q \in Procs \ {p} :
       (pc[q] # "idle" /\ loc[q].uid = loc[p].uid)
       => (q \in loc[p].after \/ p \in loc[q].after)

\* C11: a cache-aside read that follows a returned write-through update of the
\* same id, nothing having touched the key in between, is a hit that returns
\* the merged record that update wrote (which is the record the update
\* returned when no other request overlapped it), whatever the key held before.
C11_ReadAfterWriteThrough ==
  \A u, b \in Procs :
    (ReadsWriteOf(u, b) /\ loc[u].mode = "write-through")
    => /\ loc[b].st = "ok" /\ loc[b].loads = 0
       /\ loc[b].ret = ObjV(json_loads(loc[u].wrote))
       /\ Apart(u) => loc[b].ret = loc[u].ret
C11_Witness ==
  \E q, u, b \in Procs :
    /\ ReadsWriteOf(u, b) /\ loc[u].mode = "write-through" /\ Apart(u)
    /\ Done(q, "swr") /\ loc[q].miss /\ loc[q].key = loc[u].key
    /\ loc[q].sver + 1 = loc[u].sver
    /\ loc[b].ret = loc[u].ret /\ loc[b].ret.v.name = "N1"

\* four SWR reads one after the other: at t=0, at t=1, in the stale window
\* (the clock reads 2 or 3) and at t=3 once the refresh task has ended
FourReads ==
  /\ \A p \in 1..4 : Done(p, "swr")
  /\ \A p \in 1..3 : p \in loc[p + 1].after
  /\ loc[1].tget = 0 /\ loc[2].tget = 1 /\ loc[3].tget >= 2 /\ loc[4].tget = 3
  /\ loc[4].clean

\* all loader calls made for the requests: by the reads and by their refreshes
LoaderCalls == loc[1].loads + loc[2].loads + loc[3].loads + loc[4].loads
               + loc[1].refreshed + loc[2].refreshed + loc[3].refreshed + loc[4].refreshed

\* C12: in the scenario ttl=2, stale_grace=10 with the origin unchanged, the
\* read at t=0 is a cold miss with one loader call, the read at t=1 returns
\* the same value with no loader call, the read in the stale window returns
\* the same value and starts one background loader call, and the read at t=3
\* after the refresh returns the same value; the loader ran exactly twice.
C12_SwrScenario ==
  FourReads =>
    /\ loc[1].miss /\ loc[1].loads = 1 /\ loc[1].st = "ok"
    /\ ~loc[2].miss /\ ~loc[2].stale /\ loc[2].loads = 0
    /\ loc[3].stale /\ loc[3].loads = 0 /\ loc[3].started = 1 /\ loc[3].refreshed = 1
    /\ ~loc[4].miss /\ ~loc[4].stale /\ loc[4].loads = 0
    /\ \A p \in 2..4 : loc[p].st = "ok" /\ loc[p].ret = loc[1].ret
    /\ LoaderCalls = 2
C12_Witness ==
  /\ FourReads /\ loc[3].tget = 2 /\ LoaderCalls = 2 /\ loc[4].ret = ObjV(Ada)
  /\ json_loads(Get(UserKey("1"))).stale_at > 3

\* C13: while the probe that can_attempt let through after recovery_timeout is
\* in flight (its outcome not yet recorded), no other call is let through to
\* the store.
C13_SingleProbe == hist.probe # 0 => hist.late = {}

\* C14: when the probe succeeds the breaker is closed; when it fails the
\* breaker is open at once, with last_failure_time the time of that failure.
C14_ProbeOutcome ==
  [][\A p \in Procs :
       (hist.probe = p /\ cbpc[p] = "inflight" /\ cbpc'[p] = "idle" /\ cb' # cb)
       => IF cb'.failure_count = 0
          THEN ~cb'.is_open
          ELSE cb'.is_open /\ cb'.last_failure_time = now]_vars

\* the positions of a request at which its next step is a call of the store
\* (the others await the origin or return); a request's first step is one
\* unless it is update_user, which first reads the origin
StorePcs ==
  {"ca_set", "sf_lock", "sf_pipe", "sf_unlock", "sf_reread", "neg_set",
   "swr_lock", "swr_set", "upd_enq", "upd_pipe", "inv_del", "inv_deldep"}
StoreCall(p) ==
  /\ pc'[p] # pc[p]
  /\ pc[p] \in StorePcs \/ (pc[p] = "idle" /\ loc'[p].op # "update")

\* C15: no read strategy, write path, invalidation or rate-limiter step calls
\* the store while the circuit breaker is open (within recovery_timeout of the
\* last failure).
C15_NoStoreCallWhileOpen ==
  [][(cb.is_open /\ now - cb.last_failure_time <= RECOVERY_TIMEOUT)
     => ~ \E p \in Procs : StoreCall(p)]_vars

\* p is the first request of its identity to arrive once the window that the
\* identity's first request opened has elapsed
FirstAfterWindow(p) ==
  /\ Done(p, "rate") /\ RateBefore(p) # {}
  /\ \A q \in RateBefore(p) :
       /\ RateBefore(q) = {} => loc[p].tget >= loc[q].tget + RATE_WINDOW_SEC
       /\ \A f \in RateBefore(p) :
            RateBefore(f) = {} => loc[q].tget < loc[f].tget + RATE_WINDOW_SEC

\* C16: the counter's window is fixed: the first request of an identity that
\* arrives window_sec or more after the identity's first request finds the
\* counter reset and is admitted, however many requests came in the window.
C16_FixedWindow ==
  \A p \in Procs : FirstAfterWindow(p) => (loc[p].st = "ok" /\ loc[p].count = 1)


IsPrefix(a, b) == Len(a) <= Len(b) /\ SubSeq(b, 1, Len(a)) = a

\* nothing is under way: no request, no queued message, no worker applying
Quiet ==
  /\ \A p \in Procs : pc[p] \in {"idle", "done"}
  /\ queue = <<>>
  /\ \A w \in Workers : wpc[w].pc = "pop"

\* the payload of the message enqueued last
LastPayload == json_loads(hist.enq[Len(hist.enq)]).payload

\* C17 as stated: messages are applied in the order they were enqueued, and
\* once all are applied the origin holds the later-enqueued record, with one
\* or with several workers on the queue.
C17_Fifo ==
  /\ IsPrefix(hist.applied, hist.enq)
  /\ (Quiet /\ hist.enq # <<>>) => OriginRec(LastPayload.id) = ObjV(LastPayload)

\* C17 amended: the same, when a single worker consumes the queue.
C17_FifoOneWorker ==
  Cardinality(hist.poppers) <= 1 => C17_Fifo
C17_Witness ==
  /\ Quiet /\ Len(hist.enq) >= 2 /\ hist.applied = hist.enq
  /\ hist.enq[1] # hist.enq[2]
  /\ Cardinality(hist.poppers) = 1
  /\ OriginRec("1") = ObjV(LastPayload)

\* C18: no step of a write-behind update changes the origin's record of any
\* id (only the worker, applying the message, does).
C18_WriteBehindLeavesOrigin ==
  [][\A p \in Procs :
       (pc'[p] # pc[p] /\ loc'[p].op = "update" /\ loc'[p].mode = "write-behind")
       => \A u \in Uids : OriginRec(u)' = OriginRec(u)]_vars

\* the messages enqueued for id u, in the order they were enqueued
EnqFor(u) == SelectSeq(hist.enq, LAMBDA m : json_loads(m).payload.id = u)

\* the origin holds, for each id with messages, the payload enqueued last
OriginIsLast ==
  \A u \in Uids :
    EnqFor(u) # <<>> => OriginRec(u) = ObjV(json_loads(EnqFor(u)[Len(EnqFor(u))]).payload)

\* C19: with the worker running, every message enqueued is popped and applied
\* in the end; and whenever nothing is under way any more (no request, the
\* queue empty, the worker waiting) the origin's record of each id is the
\* payload of the last message enqueued for it.
C19_EventuallyApplied ==
  /\ \A n \in 1..NWriters : (Len(hist.enq) >= n) ~> (Len(hist.applied) >= n)
  /\ [](IsPrefix(hist.applied, hist.enq))
  /\ [](Quiet => OriginIsLast)
C19_Witness ==
  /\ Quiet /\ Len(hist.applied) = NWriters
  /\ OriginRec("3") # NoneV /\ OriginIsLast

\* the cache-aside read b is a hit that returns the record update u wrote
HitOf(u, b) ==
  /\ loc[b].st = "ok" /\ loc[b].loads = 0
  /\ loc[b].ret = ObjV(json_loads(loc[u].wrote))

\* C20 as stated: every cache-aside read of X that follows a returned
\* write-behind update of X is a hit returning the merged record.
C20_ReadAfterWriteBehind ==
  \A u, b \in Procs :
    ( /\ Done(u, "update") /\ loc[u].mode = "write-behind"
      /\ Done(b, "cache-aside") /\ loc[b].key = loc[u].key /\ u \in loc[b].after )
    => HitOf(u, b)

\* C20: a cache-aside read of X that follows a returned write-behind update of
\* X, the key of X not written, deleted or expired in between, is a hit
\* returning the merged record, whether or not the worker has applied the
\* message and whether or not X exists in the origin.
C20_ReadAfterWriteBehindUntouched ==
  \A u, b \in Procs :
    (ReadsWriteOf(u, b) /\ loc[u].mode = "write-behind") => HitOf(u, b)
C20_Witness ==
  \E u, b \in Procs :
    /\ ReadsWriteOf(u, b) /\ loc[u].mode = "write-behind" /\ HitOf(u, b)
    /\ loc[u].uid = "3" /\ USERS["3"] = 0 /\ hist.applied = <<>>
    /\ loc[b].ret.v.name = "N1"

\* the calls of recompute_all inside the critical section (the try body)
InCritical == {p \in Procs : pc[p] = "rc_work"}

\* call p held the lock for its TTL or longer before its release took effect
Overstayed(p) ==
  /\ loc[p].op = "recompute" /\ loc[p].started = 1
  /\ (IF pc[p] = "done" THEN loc[p].tset ELSE now) - loc[p].tget >= RECOMPUTE_LOCK_TTL

\* C21: a call is in the critical section only after its own set-if-absent
\* created the lock; a call that ended did so with success or with locked, a
\* locked one at once and without having entered; and, as long as every holder
\* has released within the lock TTL, at most one call is in the critical
\* section.
C21_RecomputeGuard ==
  /\ \A p \in InCritical : loc[p].started = 1 /\ loc[p].gver > 0
  /\ \A p \in Procs :
       Done(p, "recompute")
       => \/ loc[p].st = "ok" /\ loc[p].started = 1
          \/ loc[p].st = "locked" /\ loc[p].started = 0 /\ loc[p].tset = loc[p].tget
  /\ (\A p \in Procs : ~Overstayed(p)) => Cardinality(InCritical) <= 1
C21_Witness ==
  \E a, b, c \in Procs :
    /\ Done(a, "recompute") /\ loc[a].st = "ok" /\ ~Overstayed(a)
    /\ Done(b, "recompute") /\ loc[b].st = "locked" /\ a \notin loc[b].after
    /\ c \in InCritical /\ a \in loc[c].after /\ ~Overstayed(c)

\* the recompute lock in the store is the one call p created: the key has not
\* been set, deleted or expired since p's set-if-absent
HoldsLock(p) ==
  /\ Get(RecomputeKey) # Nil
  /\ loc[p].started = 1 /\ hist.ver[RecomputeKey] = loc[p].gver

\* C22: a release that removes the recompute lock removes the lock that the
\* releasing call created.
C22_ReleaseOnlyOwnLock ==
  [][\A p \in Procs :
       (pc[p] = "rc_unlock" /\ pc'[p] = "done" /\ Get(RecomputeKey) # Nil)
       => HoldsLock(p)]_vars

\* the callers that took lock key lk by set-if-absent and have not yet
\* released it: singleflight winners, refresh tasks, recompute holders
Holders(lk) ==
  {p \in Procs : \/ pc[p] \in {"sf_load", "sf_pipe", "sf_unlock"} /\ LockKey(loc[p].key) = lk
                 \/ bg[p].pc # "none" /\ SwrLockKey(bg[p].key) = lk
                 \/ pc[p] \in {"rc_work", "rc_unlock"} /\ lk = RecomputeKey}
LockKeys ==
  {LockKey(k) : k \in UserKeys} \cup {SwrLockKey(k) : k \in UserKeys} \cup {RecomputeKey}

\* C23: a lock key is in the store only while a caller that acquired it is
\* still at work: once the holders have ended (with a value, with absent or
\* with an exception) the key is gone and the next set-if-absent succeeds,
\* whatever is left of the TTL.
C23_ReleasedWhenWorkEnds ==
  \A lk \in LockKeys : Get(lk) # Nil => Holders(lk) # {}
C23_Witness ==
  \E p, q \in Procs :
    /\ Done(p, "singleflight") /\ loc[p].st = "error" /\ loc[p].loads = 1
    /\ pc[q] = "sf_load" /\ loc[q].key = loc[p].key /\ p \in loc[q].after
    /\ loc[q].t0 = loc[p].tget
    /\ \E r \in Procs : Done(r, "recompute") /\ loc[r].st = "ok" /\ Get(RecomputeKey) = Nil

\* the cache entry of read p's key is the one p wrote on its miss
EntryOf(p) ==
  /\ pc[p] = "done" /\ loc[p].miss /\ loc[p].sver > 0
  /\ Get(loc[p].key) # Nil /\ hist.ver[loc[p].key] = loc[p].sver

\* C24: while the entry a cache-aside read wrote on a miss is in the cache,
\* its key is a member of the DependencySet of the id.
C24_PopulatedKeyRecorded ==
  \A p \in Procs :
    (EntryOf(p) /\ loc[p].op = "cache-aside") => loc[p].key \in dep[loc[p].uid].m

\* the store answered with a value for the key: JSON text, not the marker
CacheHolds(raw) == raw.t = "json"

\* the requested ids of bulk read p that resolved to a value: the multi-get
\* answered with a value, or else the origin held a record when p loaded the id
Resolved(p) ==
  LET b == loc[p].bk
  IN {u \in Elems(b.ids) :
        \/ CacheHolds(b.cache0[u])
        \/ u \in DOMAIN b.orig /\ b.orig[u] # NoneV}

\* no other request overlapped with request p
Unshared(p) ==
  \A q \in Procs \ {p} : pc[q] # "idle" => (q \in loc[p].after \/ p \in loc[q].after)

\* the result of a bulk read that has ended: its key set is the resolved ids;
\* an id the cache held is mapped to the cached record (the value of an SWR
\* envelope), an id that was loaded to the record the origin held (when no
\* other request overlapped)
BulkResultOk(p) ==
  LET b == loc[p].bk
      m == loc[p].ret.m
  IN /\ loc[p].st = "ok" /\ loc[p].ret.t = "map"
     /\ DOMAIN m = Resolved(p)
     /\ \A u \in DOMAIN m :
          /\ m[u].id = u
          /\ CacheHolds(b.cache0[u]) => m[u] = Unwrap(json_loads(b.cache0[u]))
          /\ (~CacheHolds(b.cache0[u]) /\ Unshared(p)) => ObjV(m[u]) = b.orig[u]

\* when a bulk read returns, each id it loaded is mapped to the record the
\* origin holds
BulkReturnsOrigin ==
  \A p \in Procs :
    (pc[p] = "bk_pipe" /\ pc'[p] = "done")
    => \A u \in DOMAIN loc'[p].ret.m :
         ~CacheHolds(loc[p].bk.cache0[u]) => ObjV(loc'[p].ret.m[u]) = OriginRec(u)'

\* C25: the mapping a bulk read returns has as its keys exactly the requested
\* ids that resolved to a value, in the cache or else in the origin, each
\* mapped to that record; an id that resolved to absent is not a key of it.
C25_BulkResult ==
  /\ [](\A p \in Procs : Done(p, "bulk") => BulkResultOk(p))
  /\ [][BulkReturnsOrigin]_vars
C25_Witness ==
  \E p \in Procs :
    /\ Done(p, "bulk") /\ BulkResultOk(p) /\ loc[p].bk.ids = <<"2", "3", "1">>
    /\ DOMAIN loc[p].ret.m = {"1", "2"}
    /\ loc[p].bk.cache0["3"] = NilMarker /\ loc[p].bk.cache0["2"] = Nil
    /\ IsEnvelope(json_loads(loc[p].bk.cache0["1"]))

\* a step of invalidate call p on an id that has no DependencySet: the call
\* read no members and there is no set when the step is taken
NoDepStep(p) ==
  /\ pc'[p] # pc[p] /\ loc'[p].op = "invalidate"
  /\ loc'[p].members = {} /\ dep[loc'[p].uid].m = {}

\* the step leaves the store as it is, and a call that ends answers success
NoEffect(p) ==
  /\ store' = store /\ dep' = dep
  /\ pc'[p] = "done" => loc'[p].st = "ok"

\* b is an invalidate call that comes right after the invalidate call a of the
\* same id: a had ended when b arrived and no other request on the id was
\* under way during a, between the two or during b
InARow(a, b) ==
  /\ Done(a, "invalidate") /\ loc[b].op = "invalidate" /\ loc[b].uid = loc[a].uid
  /\ a \in loc[b].after /\ loc[a].clean /\ loc[b].count = loc[a].count + 1
  /\ Alone(b)

Unrouted(p) == pc[p] = "idle" /\ pc'[p] # "idle" /\ loc'[p].op = "get_user"

\* C27: a read request whose strategy name is none of cache-aside,
\* singleflight, swr and negative is answered by get_user itself, with 400, in
\* the step in which it arrives: no store key (cache entry, lock) is read or
\* written, no refresh task is created and the loader is not called.
C27_InvalidStrategyRejected ==
  /\ [][\A p \in Procs :
          Unrouted(p)
          => /\ pc'[p] = "done" /\ loc'[p].st = "invalid" /\ loc'[p].loads = 0
             /\ store' = store /\ dep' = dep /\ bg' = bg /\ hist' = hist]_vars
  /\ [](\A p \in Procs :
          pc[p] # "idle"
          => (loc[p].op = "get_user" <=> loc[p].mode \in StrategyNames \ ValidStrategies))
  /\ [](\A p \in Procs :
          (pc[p] # "idle" /\ loc[p].op # "get_user") => loc[p].op \in ValidStrategies)
C27_Witness ==
  \E p, q \in Procs :
    /\ Done(p, "get_user") /\ loc[p].st = "invalid" /\ loc[p].mode = "bulk"
    /\ pc[q] = "sf_load" /\ q < p /\ Get(UserKey("1")) = Nil
    /\ Get(LockKey(UserKey("1"))) = One

\* the counter backend failed for rate-limit request p: no count came back
BackendFailed(p) == Done(p, "rate") /\ loc[p].count = 0

\* C28: a request for which the counter backend failed is admitted; a request
\* is rejected only when its increment came back with a count above
\* max_tokens, and every request with such a count is rejected.
C28_FailOpen ==
  \A p \in Procs :
    Done(p, "rate")
    => /\ loc[p].st \in {"ok", "limited"}
       /\ BackendFailed(p) => loc[p].st = "ok"
       /\ loc[p].st = "limited" <=> loc[p].count > RATE_MAX_TOKENS
C28_Witness ==
  \E p, q \in Procs :
    /\ BackendFailed(p) /\ loc[p].st = "ok" /\ q \in loc[p].after
    /\ Done(q, "rate") /\ loc[q].uid = loc[p].uid /\ loc[q].st = "limited"
    /\ loc[q].tget = loc[p].tget

\* C29: a read whose loader raised ends with an error, has called the loader
\* once, and neither the raising step nor any later step of the request
\* writes its key; what is left to it is the release of the build lock.
C29_LoaderRaises ==
  /\ [](\A p \in Procs :
          loc[p].raised
          => /\ pc[p] \in {"done", "sf_unlock"}
             /\ pc[p] = "done" => loc[p].st = "error"
             /\ loc[p].loads = 1 /\ loc[p].sver = 0)
  /\ [][\A p \in Procs :
          (loc'[p].raised /\ pc'[p] # pc[p])
          => /\ store'[loc'[p].key] = store[loc'[p].key]
             /\ store'[RebuildingKey(loc'[p].key)] = store[RebuildingKey(loc'[p].key)]]_vars
C29_Witness ==
  \E p, q, r \in Procs :
    /\ Done(p, "singleflight") /\ loc[p].raised /\ loc[p].st = "error"
    /\ Done(q, "negative") /\ loc[q].raised /\ loc[q].st = "error"
    /\ Done(r, "swr") /\ loc[r].raised /\ loc[r].st = "error"
    /\ Get(UserKey("1")) = Nil /\ Get(LockKey(UserKey("1"))) = Nil

\* the refresh task of request p has ended and has written an envelope
Refreshed(p) ==
  /\ loc[p].op = "swr" /\ loc[p].started = 1 /\ bg[p].pc = "none" /\ loc[p].wrote # Nil

\* the SWR read r is a fresh hit on the envelope the refresh of p wrote
FreshHitOn(p, r) ==
  /\ loc[r].st = "ok" /\ ~loc[r].stale /\ ~loc[r].miss /\ loc[r].loads = 0
  /\ loc[r].ret = ObjV(json_loads(loc[p].wrote).value)

\* the steps of a refresh task: the envelope holds the origin's record and
\* the time of the load plus TTL; it is written with the TTL TTL + stale_grace
RefreshSteps ==
  \A p \in Procs :
    /\ (bg[p].pc = "load" /\ bg'[p].pc = "set")
       => json_loads(bg'[p].ser) = Envelope(OriginRec(bg[p].uid).v, now + bg[p].ttl)
    /\ (bg[p].pc = "set" /\ bg'[p].pc = "unlock")
       => store'[bg[p].key] = [v |-> bg[p].ser, exp |-> now + bg[p].ttl + bg[p].grace]

\* the read that created a refresh task has returned the stale value
TriggerReturned ==
  \A p \in Procs :
    bg[p].pc # "none" => (Done(p, "swr") /\ loc[p].st = "ok" /\ loc[p].stale)

\* C30 as stated: every SWR read made after a refresh that wrote an envelope
\* has ended is a fresh hit returning the value of that envelope.
C30_FreshAfterRefresh ==
  \A p, r \in Procs :
    (Refreshed(p) /\ Done(r, "swr") /\ p \in loc[r].rdone) => FreshHitOn(p, r)

\* C30: a refresh writes {the origin's record, time of the load + TTL} with
\* the TTL TTL + stale_grace; an SWR read made after the refresh has ended
\* that finds this envelope (no write, deletion or expiry of the key since)
\* before its soft expiry is a fresh hit returning its value; and the read
\* that created the refresh task has returned by the time the task runs.
C30_FreshAfterRefreshUntilStale ==
  /\ [][RefreshSteps]_vars
  /\ []TriggerReturned
  /\ [](\A p, r \in Procs :
          ( /\ Refreshed(p) /\ Done(r, "swr") /\ p \in loc[r].rdone
            /\ loc[r].gver = loc[p].sver
            /\ loc[r].tget < json_loads(loc[p].wrote).stale_at )
          => FreshHitOn(p, r))
C30_Witness ==
  \E p, r \in Procs :
    /\ Refreshed(p) /\ Done(r, "swr") /\ p \in loc[r].rdone
    /\ loc[r].gver = loc[p].sver /\ FreshHitOn(p, r)
    /\ loc[p].ret.v.name = "Ada" /\ loc[r].ret.v.name = "N1"

(* ------------------------------ C31 ------------------------------------ *)
\* the requested ids of bulk read p that missed: the multi-get answered with
\* nothing, or with text that is no JSON (the marker)
Missed(p) == {u \in Elems(loc[p].bk.ids) : ~CacheHolds(loc[p].bk.cache0[u])}

\* the loader has been called once for each id loaded so far, a missed one
LoadsOnlyMisses(p) ==
  /\ DOMAIN loc[p].bk.orig \subseteq Missed(p)
  /\ loc[p].loads = Cardinality(DOMAIN loc[p].bk.orig)
  /\ (pc[p] = "done" /\ loc[p].st = "ok") => DOMAIN loc[p].bk.orig = Missed(p)

\* the step on which bulk read p returns: the key of each missed id holds the
\* marker for NEG_TTL when the origin had no record of it, else a record of
\* that id for the jittered ttl (the origin's record, when no other request
\* overlapped); the key of each id that hit is left as it was
BulkWriteBack ==
  \A p \in Procs :
    (pc[p] = "bk_pipe" /\ pc'[p] = "done" /\ loc'[p].st = "ok")
    => \A u \in Elems(loc[p].bk.ids) :
         LET k == UserKey(u)
             b == loc[p].bk
         IN IF u \in Missed(p)
            THEN IF b.orig[u] = NoneV
                 THEN store'[k] = [v |-> NilMarker, exp |-> now + NEG_TTL]
                 ELSE /\ store'[k].v.t = "json" /\ store'[k].v.o.id = u
                      /\ store'[k].exp - now \in WithJitter(loc[p].ttl)
                      /\ Unshared(p)' => store'[k].v = json_dumps(b.orig[u].v)
            ELSE store'[k] = store[k]

\* C31: when a bulk read returns, every requested id that missed the cache has
\* a cache entry, the origin's record if the origin has one and otherwise the
\* NegativeMarker with the negative TTL; the entries of the ids that hit are
\* not rewritten, and the loader is called only for the ids that missed.
C31_BulkWriteBack ==
  /\ [](\A p \in Procs : loc[p].op = "bulk" => LoadsOnlyMisses(p))
  /\ [][BulkWriteBack]_vars
C31_Witness ==
  \E p \in Procs :
    /\ Done(p, "bulk") /\ loc[p].st = "ok" /\ loc[p].bk.ids = <<"2", "3", "1">>
    /\ Missed(p) = {"2", "3"} /\ loc[p].loads = 2 /\ Unshared(p)
    /\ store[UserKey("3")] = [v |-> NilMarker, exp |-> loc[p].tset + NEG_TTL]
    /\ store[UserKey("2")].v = json_dumps(Grace)
    /\ store[UserKey("1")].v = loc[p].bk.cache0["1"]

(* ------------------------------ C32 ------------------------------------ *)
\* the step on which the loader of a cache-aside read answers None: the read
\* ends with None and no key, set or list of the store changes
AbsentLoadWritesNothing ==
  \A p \in Procs :
    (pc[p] = "ca_load" /\ pc'[p] = "done" /\ ~loc'[p].raised)
    => /\ loc'[p].st = "none" /\ loc'[p].ret = NoneV
       /\ store' = store /\ dep' = dep /\ queue' = queue /\ rate' = rate

\* b is a cache-aside read that follows the completed cache-aside read a of
\* the same key, whose loader answered None, the key not written in between
FollowsAbsent(a, b) ==
  /\ Done(a, "cache-aside") /\ loc[a].miss /\ loc[a].st = "none"
  /\ loc[b].op = "cache-aside" /\ loc[b].key = loc[a].key /\ a \in loc[b].after
  /\ loc[b].gver = loc[a].gver

\* C32: a cache-aside read whose loader returns absent returns not-found and
\* writes nothing to the store (no marker), so that the next cache-aside read
\* of the key misses and calls the loader again.
C32_AbsentNotCached ==
  /\ [][AbsentLoadWritesNothing]_vars
  /\ [](\A a, b \in Procs : FollowsAbsent(a, b) => (loc[b].miss /\ loc[b].loads = 1))
C32_Witness ==
  \E a, b \in Procs :
    /\ FollowsAbsent(a, b) /\ Done(b, "cache-aside") /\ loc[b].st = "none"
    /\ loc[a].loads = 1 /\ loc[b].loads = 1 /\ store[loc[a].key] = Absent

(* ------------------------------ C33 ------------------------------------ *)
\* C33: in every reachable state of the circuit breaker, whatever the
\* interleaving of the store calls in flight, is_open holds exactly when
\* failure_count >= failure_threshold, and failure_count is not negative.
C33_OpenIffThreshold ==
  /\ cb.is_open <=> (cb.failure_count >= FAILURE_THRESHOLD)
  /\ cb.failure_count >= 0
\* the breaker is open with the count past the threshold, after the failure of
\* a call that was in flight when it opened, and another call is in flight
C33_Witness ==
  /\ cb.is_open /\ cb.failure_count > FAILURE_THRESHOLD
  /\ \E p \in Procs : cbpc[p] = "inflight"

(* ------------------------------ C34 ------------------------------------ *)
\* C34: a value returned by a cache-aside, singleflight or negative-cache read
\* of a user key is the user's record, never the SWR envelope
\* {value, stale_at}.
C34_NeverEnvelope ==
  \A p \in Procs :
    (/\ pc[p] = "done" /\ loc[p].st = "ok"
     /\ loc[p].op \in {"cache-aside", "singleflight", "negative"})
    => (~IsEnvelope(loc[p].ret.v) /\ loc[p].ret.v.id = loc[p].uid)

(* ------------------------------ C35 ------------------------------------ *)
\* the step on which a cache-aside, singleflight or SWR read gets the answer
\* of its GET while the key holds the marker: the read ends with not-found
MarkerReadStep ==
  \A p \in Procs :
    (/\ pc[p] = "idle" /\ pc'[p] # "idle"
     /\ loc'[p].op \in {"cache-aside", "singleflight", "swr"}
     /\ store[loc'[p].key].v = NilMarker)
    => (pc'[p] = "done" /\ loc'[p].st = "none")

\* C35: while the key of an id holds the NegativeMarker, a read of that id by
\* cache-aside, singleflight or SWR returns not-found and does not end in an
\* error.
C35_MarkerReadsAbsent == [][MarkerReadStep]_vars

(* ------------------------------ C36 ------------------------------------ *)
\* j lies within ttl - ttl * JITTER_RANGE and ttl + ttl * JITTER_RANGE
WithinJitter(ttl, j) ==
  /\ 100 * j >= ttl * (100 - JITTER_PCT)
  /\ 100 * j <= ttl * (100 + JITTER_PCT)

\* C36: for every ttl the API accepts, each value _with_jitter(ttl) can take
\* for a read about to write the cache is an integer >= 1 lying within
\* ttl +- ttl * JITTER_RANGE, so that no SETEX carries a zero or negative
\* expiry.
C36_JitterPositive ==
  \A p \in Procs :
    (pc[p] \in {"ca_set", "sf_pipe", "neg_set", "bk_pipe"} /\ loc[p].ttl >= 1)
    => \A j \in WithJitter(loc[p].ttl) : j >= 1 /\ WithinJitter(loc[p].ttl, j)

(* ------------------------------ C37 ------------------------------------ *)
\* an update and an invalidation of id u ran concurrently and both have
\* finished, with no other request on u in flight
RacedAndFinished(u) ==
  /\ \E a, b \in Procs :
       /\ Done(a, "update") /\ Done(b, "invalidate")
       /\ loc[a].uid = u /\ loc[b].uid = u
       /\ a \notin loc[b].after /\ b \notin loc[a].after
  /\ \A q \in Procs : loc[q].uid = u => pc[q] = "done"

\* C37: in every interleaving of invalidate(X) with a concurrent update of X,
\* once both have finished, every live cache key the update wrote for X (the
\* user key and the widget key) is a member of X's DependencySet.
C37_LiveKeysTracked ==
  \A u \in Uids :
    RacedAndFinished(u)
    => \A k \in {UserKey(u), WidgetKey(u)} : Get(k) # Nil => k \in dep[u].m

(* ------------------------------ C38 ------------------------------------ *)
\* the messages the worker applied since the stop event was set
AppliedAfterStop == Len(hist.applied) - hist.stopn

\* the messages that were in the queue when the stop event was set, without
\* the head when the blocking pop that was pending then took it
LeftAtStop ==
  IF hist.popsafter > 0 /\ hist.stopq # <<>> THEN Tail(hist.stopq) ELSE hist.stopq

\* C38 as stated: once the stop event is set the worker pops nothing more (it
\* applies at most the message it has already popped), and every message in
\* the queue at that point stays in the queue, unchanged and in order.
C38_StopsAfterHeldMessage ==
  wpc[1].stop => (hist.popsafter = 0 /\ AppliedAfterStop <= 1 /\ IsPrefix(hist.stopq, queue))

\* C38 amended: once the stop event is set the worker ends after applying at
\* most one message, the one it has already popped or the one its pending
\* blocking pop returns; every other message in the queue at that point stays
\* in the queue, unchanged and in order.
C38_StopsAfterPendingPop ==
  /\ [](wpc[1].stop => /\ hist.popsafter <= 1 /\ AppliedAfterStop <= 1
                        /\ IsPrefix(LeftAtStop, queue))
  /\ [](wpc[1].pc = "stopped" => wpc[1].stop /\ wpc[1].msg = Nil)
  /\ (wpc[1].stop ~> wpc[1].pc = "stopped")
  /\ [][wpc[1].pc = "stopped" => wpc'[1].pc = "stopped"]_vars
C38_Witness ==
  /\ wpc[1].pc = "stopped" /\ hist.popsafter = 1 /\ AppliedAfterStop = 1
  /\ Len(hist.stopq) = 2 /\ queue = Tail(hist.stopq)

====
